---- MODULE Spec2Model ----
(***************************************************************************)
(* Verification model of QuESo / TIBRA (quadrature for embedded solids).   *)
(*                                                                         *)
(*  Spec    : QuESo::Compute, the parallel cell loop and the parallel      *)
(*            condition loop with their omp critical sections.             *)
(*  SpecMF  : quadrature of one element: the moment fitting of a trimmed   *)
(*            element (CreateIntegrationPointsTrimmed / PointElimination)  *)
(*            and the tensor Gauss rule of an inside element.              *)
(*  SpecRay : the ray casting point classifier IsInsideTrimmedDomain.      *)
(*  SpecGrid: the grid indexing and the neighbour walks of the element     *)
(*            container.                                                   *)
(*  SpecSTL : the STL readers IO::ReadMeshFromSTL_Ascii / _Binary.         *)
(***************************************************************************)
EXTENDS Integers, Sequences, FiniteSets, TLC

(***************************************************************************)
(* Bounds of the model.                                                    *)
(***************************************************************************)
NumCells == 2
NumWorkers == 2
NumConditions == 1
MaxFit == 1

Workers == 1..NumWorkers
Indices == 0..(NumCells - 1)
Conditions == 0..(NumConditions - 1)

VARIABLES
    \* ---- QuESo::Compute: parameters and inputs
    embedding_flag,        \* mParameters.Get<bool>("embedding_flag")
    ggq_rule_ise_used,     \* mParameters.GGQRuleIsUsed()
    p_classifications,     \* result of pGetElementClassifications, <<>> if null
    trimmed_domain_ok,     \* per index: pGetTrimmedDomain returns a non-null pointer
    fitted_points,         \* per index: number of points AssembleIPs leaves on a trimmed element
    \* ---- QuESo::Compute: shared state
    phase,                 \* "cells", "conditions", "finish", "done" ("off" outside Spec)
    todo,                  \* iterations of the running parallel for not yet handed out
    critical,              \* owner of the unnamed omp critical region, 0 if free
    mpElementContainer,    \* sequence of published elements, in insertion order
    conforming_mesh,       \* per condition: sequence of cell indices whose clipped mesh was added
    \* ---- QuESo::Compute: per worker (thread) state
    pc, index, new_element, cond_i,
    \* ---- quadrature of one element (SpecMF): parameters
    is_trimmed,            \* the element is trimmed (moment fitting) or inside (Gauss rule)
    order,                 \* rParam.Order()
    allowed_residual,      \* rParam.MomentFittingResidual()
    \* ---- MomentFitting::CreateIntegrationPointsTrimmed
    mf_pc,                 \* position in the routine ("off" outside SpecMF)
    residual, iteration, point_distribution_factor,
    integration_points,    \* the candidate set handed to PointElimination
    element_points,        \* rElement.GetIntegrationPoints()
    refinemen_level,       \* local of DistributeIntegrationPoints
    octree_level,          \* rOctree.MaxRefinementLevel()
    \* ---- MomentFitting::PointElimination
    global_residual, prev_residual, number_iterations, point_removed, prev_solution,
    \* ---- point classification (SpecRay): the run
    scene,                 \* which mesh and cell
    rPoint,                \* the query point
    first_triangle,        \* the triangle that has id 0 in the numbering of the mesh
    \* ---- TrimmedDomain::IsInsideTrimmedDomain
    ray_pc,                \* position in the routine ("off" outside SpecRay)
    current_id, try_next_triangle, is_inside, min_distance,
    potential_intersections, \* candidates of the cast not yet tested
    result,                \* the value returned, once ray_pc = "returned"
    \* ---- grid indexing and element container (SpecGrid): the run
    number_of_elements,    \* mNumberOfElements
    container_ids,         \* ids of the elements stored in the container
    axis,                  \* direction of the walk: "X", "Y" or "Z"
    \* ---- the walk of the container
    walk_pc,               \* position in the walk ("off" outside SpecGrid)
    walk_i,                \* loop counter of the walk
    walk_current_id, next_id, found, local_end, reverse_id,
    \* ---- STL readers (SpecSTL): the file
    reader,                \* "Ascii" or "Binary"
    num_facets,            \* facets of the file (the count of the binary header)
    \* ---- IO::ReadMeshFromSTL_Ascii / IO::ReadMeshFromSTL_Binary
    stl_pc,                \* position in the reader ("off" outside SpecSTL)
    facets_read,           \* facets read so far
    normal,                \* Math::Norm of the stored normal of the facet, in hundredths
    triangle,              \* vertex indices of the facet read so far
    read_vertices,         \* every <<vertex, index>> the map lookup has produced
    mVertices, mTriangles, mNormals, \* rTriangleMesh
    stl_result             \* the value returned, once stl_pc = "returned"

varsInput == <<embedding_flag, ggq_rule_ise_used, p_classifications, trimmed_domain_ok, fitted_points>>
varsShared == <<phase, todo, critical, mpElementContainer, conforming_mesh>>
varsWorker == <<pc, index, new_element, cond_i>>
varsCompute == <<varsInput, varsShared, varsWorker>>

varsParamMF == <<is_trimmed, order, allowed_residual>>
varsCreate == <<mf_pc, residual, iteration, point_distribution_factor, integration_points,
                element_points, refinemen_level, octree_level>>
varsElimination == <<global_residual, prev_residual, number_iterations, point_removed, prev_solution>>
varsMF == <<varsParamMF, varsCreate, varsElimination>>

varsRay == <<scene, rPoint, first_triangle, ray_pc, current_id, try_next_triangle, is_inside,
             min_distance, potential_intersections, result>>

varsGrid == <<number_of_elements, container_ids, axis, walk_pc, walk_i, walk_current_id,
              next_id, found, local_end, reverse_id>>

varsSTL == <<reader, num_facets, stl_pc, facets_read, normal, triangle, read_vertices,
             mVertices, mTriangles, mNormals, stl_result>>

varsNotCompute == <<varsMF, varsRay, varsGrid, varsSTL>>
varsNotMF == <<varsCompute, varsRay, varsGrid, varsSTL>>
varsNotRay == <<varsCompute, varsMF, varsGrid, varsSTL>>
varsNotGrid == <<varsCompute, varsMF, varsRay, varsSTL>>
varsNotSTL == <<varsCompute, varsMF, varsRay, varsGrid>>

vars == <<varsCompute, varsMF, varsRay, varsGrid, varsSTL>>

(***************************************************************************)
(* Each specification runs one part of the program; the variables of the   *)
(* other parts rest at these values.                                       *)
(***************************************************************************)
ComputeOff ==
    /\ embedding_flag = FALSE
    /\ ggq_rule_ise_used = FALSE
    /\ p_classifications = <<>>
    /\ trimmed_domain_ok = <<>>
    /\ fitted_points = <<>>
    /\ phase = "off"
    /\ todo = {}
    /\ critical = 0
    /\ mpElementContainer = <<>>
    /\ conforming_mesh = <<>>
    /\ pc = <<>>
    /\ index = <<>>
    /\ new_element = <<>>
    /\ cond_i = <<>>

MFOff ==
    /\ is_trimmed = FALSE
    /\ order = <<0, 0, 0>>
    /\ allowed_residual = 0
    /\ mf_pc = "off"
    /\ residual = 0
    /\ iteration = 0
    /\ point_distribution_factor = 0
    /\ integration_points = <<>>
    /\ element_points = <<>>
    /\ refinemen_level = 0
    /\ octree_level = 0
    /\ global_residual = 0
    /\ prev_residual = 0
    /\ number_iterations = 0
    /\ point_removed = FALSE
    /\ prev_solution = <<>>

RayOff ==
    /\ scene = "none"
    /\ rPoint = <<0, 0, 0>>
    /\ first_triangle = 0
    /\ ray_pc = "off"
    /\ current_id = 0
    /\ try_next_triangle = FALSE
    /\ is_inside = FALSE
    /\ min_distance = [n |-> 1, d |-> 0]
    /\ potential_intersections = {}
    /\ result = FALSE

GridOff ==
    /\ number_of_elements = <<0, 0, 0>>
    /\ container_ids = {}
    /\ axis = "none"
    /\ walk_pc = "off"
    /\ walk_i = 0
    /\ walk_current_id = 0
    /\ next_id = 0
    /\ found = FALSE
    /\ local_end = FALSE
    /\ reverse_id = 0

STLOff ==
    /\ reader = "none"
    /\ num_facets = 0
    /\ stl_pc = "off"
    /\ facets_read = 0
    /\ normal = 0
    /\ triangle = <<>>
    /\ read_vertices = {}
    /\ mVertices = <<>>
    /\ mTriangles = <<>>
    /\ mNormals = <<>>
    /\ stl_result = FALSE

(***************************************************************************)
(* Elements as the driver sees them.                                       *)
(***************************************************************************)
IntersectionStatus == {"Inside", "Outside", "Trimmed"}

\* A moved-from / not yet constructed Unique<ElementType>.
NullElement == [id |-> 0, box |-> 0, is_trimmed |-> FALSE, has_domain |-> FALSE, ips |-> 0]

\* Element(ElementId, rBoundXYZ, rBoundUVW): mIsTrimmed(false), mpTrimmedDomain(nullptr),
\* no points.  box names the grid index whose bounding boxes the element holds.
Element(Id, BoxIndex) ==
    [id |-> Id, box |-> BoxIndex, is_trimmed |-> FALSE, has_domain |-> FALSE, ips |-> 0]

\* polynomial_order of the driver runs.
polynomial_order == <<1, 1, 1>>

\* Number of points of the tensor-product rule: n_point_u * n_point_v * n_point_w,
\* the Gauss list of order p holding p + 1 points.
TensorPoints(rOrder) == (rOrder[1] + 1) * (rOrder[2] + 1) * (rOrder[3] + 1)

\* Points the multi-element (GGQ) assembler leaves on a non-trimmed element.
GGQPoints(rOrder) == rOrder[1] * rOrder[2] * rOrder[3]

\* Variant of StatusOf: without embedding the cells count as Outside.
StatusOf_OutsideWithoutEmbedding(i) == IF embedding_flag THEN p_classifications[i] ELSE "Outside"

\* status of an index: the classification, or Inside if embedding_flag is false.
StatusOf(i) == IF embedding_flag THEN p_classifications[i] ELSE "Inside"

\* Variants of ElementId: zero-based ids; ids taken from the creation order.
ElementId_ZeroBased(i) == i
ElementId_CreationOrder(i) == Len(mpElementContainer) + 1

\* Id of the element built for grid index i.
ElementId(i) == i + 1

\* MakeUnique<ElementType>(index+1, bounding_box_xyz, bounding_box_uvw), the boxes
\* being mMapper.GetBoundingBox...FromIndex(index).
NewElement(i) == Element(ElementId(i), i)

\* Variant of TrimmedBranch: the test GetIntegrationPoints().size() == 0 is missing.
TrimmedBranch_NoEmptyTest(i) ==
    LET e0 == [NewElement(i) EXCEPT !.is_trimmed = TRUE] IN
    IF trimmed_domain_ok[i]
    THEN [element |-> [e0 EXCEPT !.has_domain = TRUE, !.ips = fitted_points[i]],
          valid_element |-> TRUE]
    ELSE [element |-> e0, valid_element |-> FALSE]

\* Trimmed branch of the loop body: SetIsTrimmed(true), pGetTrimmedDomain,
\* pSetTrimmedDomain if non-null, then AssembleIPs; invalid if no point is left.
TrimmedBranch(i) ==
    LET e0 == [NewElement(i) EXCEPT !.is_trimmed = TRUE] IN
    IF trimmed_domain_ok[i]
    THEN LET e1 == [e0 EXCEPT !.has_domain = TRUE, !.ips = fitted_points[i]]
         IN [element |-> e1, valid_element |-> (e1.ips # 0)]
    ELSE [element |-> e0, valid_element |-> FALSE]

\* Variant of InsideBranch: valid_element is set inside the if( !ggq_rule_ise_used ).
InsideBranch_ValidInsideIf(i) ==
    LET e0 == NewElement(i) IN
    [element |-> IF ggq_rule_ise_used THEN e0 ELSE [e0 EXCEPT !.ips = TensorPoints(polynomial_order)],
     valid_element |-> ~ggq_rule_ise_used]

\* Inside branch of the loop body: Gauss rule unless a GGQ rule is used; always valid.
InsideBranch(i) ==
    LET e0 == NewElement(i) IN
    [element |-> IF ggq_rule_ise_used THEN e0 ELSE [e0 EXCEPT !.ips = TensorPoints(polynomial_order)],
     valid_element |-> TRUE]

\* Body of the cell loop up to the publish: the element built and valid_element.
LoopBody(i) ==
    IF StatusOf(i) = "Trimmed" THEN TrimmedBranch(i)
    ELSE IF StatusOf(i) = "Inside" THEN InsideBranch(i)
    ELSE [element |-> NullElement, valid_element |-> FALSE]

\* Variant of CriticalFree: the pragma is missing, the region is always entered.
CriticalFree_NoPragma == TRUE

\* #pragma omp critical: the region can be entered when no thread is inside.
CriticalFree == critical = 0

\* ElementContainer::AddElement: the element is moved to the end of the container.
AddElementTo(container, e) == Append(container, e)

(***************************************************************************)
(* Initial state of Compute: parameters and the per-cell inputs.           *)
(***************************************************************************)
CellInputs ==
    {c \in [status : IntersectionStatus, domain : BOOLEAN, fit : 0..MaxFit] :
        /\ c.status # "Trimmed" => (~c.domain /\ c.fit = 0)
        /\ ~c.domain => c.fit = 0}

InitCompute ==
    /\ embedding_flag \in BOOLEAN
    /\ ggq_rule_ise_used \in BOOLEAN
    /\ \E cells \in [Indices -> CellInputs] :
          /\ embedding_flag =>
                /\ p_classifications = [i \in Indices |-> cells[i].status]
                /\ trimmed_domain_ok = [i \in Indices |-> cells[i].domain]
                /\ fitted_points = [i \in Indices |-> cells[i].fit]
          /\ ~embedding_flag =>
                /\ p_classifications = <<>>
                /\ trimmed_domain_ok = [i \in Indices |-> FALSE]
                /\ fitted_points = [i \in Indices |-> 0]
                /\ cells = [i \in Indices |-> [status |-> "Inside", domain |-> FALSE, fit |-> 0]]
    /\ phase = "cells"
    /\ todo = Indices
    /\ critical = 0
    /\ mpElementContainer = <<>>
    /\ conforming_mesh = [c \in Conditions |-> <<>>]
    /\ pc = [w \in Workers |-> "idle"]
    /\ index = [w \in Workers |-> 0]
    /\ new_element = [w \in Workers |-> NullElement]
    /\ cond_i = [w \in Workers |-> 0]

(***************************************************************************)
(* Cell loop: #pragma omp parallel for schedule(dynamic).  A step of a     *)
(* thread runs from one synchronisation point to the next: the work        *)
(* between them touches only data local to the thread.                     *)
(***************************************************************************)
\* A free thread is handed an iteration that no thread has run yet and runs
\* its body up to the critical region (or to its end, if nothing is published).
ProcessCell(w) ==
    /\ phase = "cells"
    /\ pc[w] = "idle"
    /\ \E i \in todo :
          /\ todo' = todo \ {i}
          /\ LET r == LoopBody(i) IN
                IF r.valid_element
                THEN /\ new_element' = [new_element EXCEPT ![w] = r.element]
                     /\ index' = [index EXCEPT ![w] = i]
                     /\ pc' = [pc EXCEPT ![w] = "wait_critical"]
                ELSE \* end of the iteration: its locals go out of scope
                     UNCHANGED <<new_element, index, pc>>
    /\ UNCHANGED <<varsInput, phase, critical, mpElementContainer, conforming_mesh, cond_i, varsNotCompute>>

\* Entering #pragma omp critical in front of AddElement.
EnterCriticalAdd(w) ==
    /\ phase = "cells"
    /\ pc[w] = "wait_critical"
    /\ CriticalFree
    /\ critical' = w
    /\ pc' = [pc EXCEPT ![w] = "in_AddElement"]
    /\ UNCHANGED <<varsInput, phase, todo, mpElementContainer, conforming_mesh, index, new_element, cond_i, varsNotCompute>>

\* mpElementContainer->AddElement(new_element), then the region is left and the
\* iteration ends.
AddElement(w) ==
    /\ phase = "cells"
    /\ pc[w] = "in_AddElement"
    /\ mpElementContainer' = AddElementTo(mpElementContainer, new_element[w])
    /\ new_element' = [new_element EXCEPT ![w] = NullElement]
    /\ critical' = IF critical = w THEN 0 ELSE critical
    /\ pc' = [pc EXCEPT ![w] = "idle"]
    /\ index' = [index EXCEPT ![w] = 0]
    /\ UNCHANGED <<varsInput, phase, todo, conforming_mesh, cond_i, varsNotCompute>>

\* Implicit barrier at the end of the parallel for; the condition loop starts.
JoinCells ==
    /\ phase = "cells"
    /\ todo = {}
    /\ \A w \in Workers : pc[w] = "idle"
    /\ phase' = "conditions"
    /\ todo' = Indices
    /\ UNCHANGED <<varsInput, critical, mpElementContainer, conforming_mesh, varsWorker, varsNotCompute>>

(***************************************************************************)
(* Condition loop: #pragma omp parallel for over the indices, inner loop   *)
(* over mConditions.  pClipTriangleMeshUnique reads shared data only; its  *)
(* result (NumOfTriangles() > 0 or not) is an input of the step.           *)
(***************************************************************************)
\* The inner loop runs from condition `from` on up to the first condition whose
\* clipped mesh has triangles (the thread then waits for the critical region)
\* or to the end of the inner loop (the iteration ends).
ClipFrom(w, i, from) ==
    \E stop \in from..NumConditions :
        IF stop < NumConditions
        THEN /\ cond_i' = [cond_i EXCEPT ![w] = stop]
             /\ index' = [index EXCEPT ![w] = i]
             /\ pc' = [pc EXCEPT ![w] = "wait_critical_mesh"]
        ELSE /\ cond_i' = [cond_i EXCEPT ![w] = 0]
             /\ index' = [index EXCEPT ![w] = 0]
             /\ pc' = [pc EXCEPT ![w] = "idle"]

ClipConditions(w) ==
    /\ phase = "conditions"
    /\ pc[w] = "idle"
    /\ \E i \in todo :
          /\ todo' = todo \ {i}
          /\ ClipFrom(w, i, 0)
    /\ UNCHANGED <<varsInput, phase, critical, mpElementContainer, conforming_mesh, new_element, varsNotCompute>>

\* Entering #pragma omp critical in front of AddToConformingMesh.
EnterCriticalMesh(w) ==
    /\ phase = "conditions"
    /\ pc[w] = "wait_critical_mesh"
    /\ CriticalFree
    /\ critical' = w
    /\ pc' = [pc EXCEPT ![w] = "in_AddToConformingMesh"]
    /\ UNCHANGED <<varsInput, phase, todo, mpElementContainer, conforming_mesh, index, new_element, cond_i, varsNotCompute>>

\* mConditions[i].AddToConformingMesh(*p_new_mesh), then the region is left and
\* the inner loop goes on.
AddToConformingMesh(w) ==
    /\ phase = "conditions"
    /\ pc[w] = "in_AddToConformingMesh"
    /\ conforming_mesh' = [conforming_mesh EXCEPT ![cond_i[w]] = Append(@, index[w])]
    /\ critical' = IF critical = w THEN 0 ELSE critical
    /\ ClipFrom(w, index[w], cond_i[w] + 1)
    /\ UNCHANGED <<varsInput, phase, todo, mpElementContainer, new_element, varsNotCompute>>

\* Barrier of the condition loop, then the GGQ assembly on the whole container.
FinishCompute ==
    /\ phase = "conditions"
    /\ todo = {}
    /\ \A w \in Workers : pc[w] = "idle"
    /\ mpElementContainer' =
          IF ggq_rule_ise_used
          THEN [k \in 1..Len(mpElementContainer) |->
                   IF mpElementContainer[k].is_trimmed THEN mpElementContainer[k]
                   ELSE [mpElementContainer[k] EXCEPT !.ips = GGQPoints(polynomial_order)]]
          ELSE mpElementContainer
    /\ phase' = "done"
    /\ UNCHANGED <<varsInput, todo, critical, conforming_mesh, varsWorker, varsNotCompute>>

Next ==
    \/ \E w \in Workers : ProcessCell(w)
    \/ \E w \in Workers : EnterCriticalAdd(w)
    \/ \E w \in Workers : AddElement(w)
    \/ JoinCells
    \/ \E w \in Workers : ClipConditions(w)
    \/ \E w \in Workers : EnterCriticalMesh(w)
    \/ \E w \in Workers : AddToConformingMesh(w)
    \/ FinishCompute

Init == InitCompute /\ MFOff /\ RayOff /\ GridOff /\ STLOff

Spec == Init /\ [][Next]_vars

(***************************************************************************)
(* Properties of QuESo::Compute.                                           *)
(***************************************************************************)
ContainerElements == {mpElementContainer[k] : k \in 1..Len(mpElementContainer)}
Published(i) == \E e \in ContainerElements : e.id = i + 1
TimesPublished(i) == Cardinality({k \in 1..Len(mpElementContainer) : mpElementContainer[k].id = i + 1})

\* C4: after Compute a cell classified Trimmed has an element in the container
\* iff its trimmed domain was built and moment fitting left at least one point;
\* every trimmed element of the container has a trimmed domain and points.
C4_TrimmedPublishedIffFitted ==
    /\ phase = "done" =>
          \A i \in Indices : StatusOf(i) = "Trimmed" =>
              (Published(i) <=> (trimmed_domain_ok[i] /\ fitted_points[i] > 0))
    /\ \A e \in ContainerElements : e.is_trimmed => (e.has_domain /\ e.ips > 0)

C4_Witness ==
    /\ phase = "done"
    /\ \E i, j \in Indices :
          /\ StatusOf(i) = "Trimmed" /\ Published(i)
          /\ StatusOf(j) = "Trimmed" /\ trimmed_domain_ok[j] /\ ~Published(j)

\* C5: after Compute no Outside cell has an element, and every Inside cell has
\* exactly one element, not trimmed, whether or not a Gauss rule was assembled.
C5_InsideOnceOutsideNever ==
    phase = "done" =>
        \A i \in Indices :
            /\ StatusOf(i) = "Outside" => TimesPublished(i) = 0
            /\ StatusOf(i) = "Inside" =>
                  /\ TimesPublished(i) = 1
                  /\ \A e \in ContainerElements : e.id = i + 1 => ~e.is_trimmed

C5_Witness ==
    /\ phase = "done"
    /\ ggq_rule_ise_used
    /\ \E i, j \in Indices :
          /\ StatusOf(i) = "Inside" /\ Published(i)
          /\ StatusOf(j) = "Outside" /\ ~Published(j)

\* The content a sequential run over the indices leaves in the container.
FinalElement(e) ==
    IF ggq_rule_ise_used /\ ~e.is_trimmed THEN [e EXCEPT !.ips = GGQPoints(polynomial_order)] ELSE e
ExpectedContent ==
    {FinalElement(LoopBody(i).element) : i \in {j \in Indices : LoopBody(j).valid_element}}

\* C8: whatever the interleaving and the assignment of indices to threads, the
\* final container holds the same elements (id, is_trimmed, points); only the
\* insertion order may differ.
C8_ContentIndependentOfSchedule ==
    phase = "done" =>
        /\ ContainerElements = ExpectedContent
        /\ Len(mpElementContainer) = Cardinality(ExpectedContent)

\* Two runs on one input end with different insertion orders: here the order
\* opposite to the index order.
C8_Witness ==
    /\ phase = "done"
    /\ Len(mpElementContainer) = 2
    /\ mpElementContainer[1].id > mpElementContainer[2].id

InAddElement == {w \in Workers : pc[w] = "in_AddElement"}
InAddToConformingMesh == {w \in Workers : pc[w] = "in_AddToConformingMesh"}

\* C9: at no time are two threads inside AddElement, or two threads inside
\* AddToConformingMesh; the container and the conforming meshes are written
\* only by the thread inside the critical region (and by the sequential end of
\* Compute after the loops have joined).
C9_MutualExclusion ==
    /\ [](/\ Cardinality(InAddElement) <= 1
          /\ Cardinality(InAddToConformingMesh) <= 1
          /\ \A w \in InAddElement \cup InAddToConformingMesh : critical = w)
    /\ [][/\ (mpElementContainer' # mpElementContainer /\ phase' # "done") =>
                \E w \in InAddElement : critical = w /\ pc'[w] = "idle"
          /\ conforming_mesh' # conforming_mesh =>
                \E w \in InAddToConformingMesh : critical = w /\ pc'[w] # pc[w]
          /\ \A w \in Workers :
                (new_element'[w] # new_element[w] \/ index'[w] # index[w] \/ cond_i'[w] # cond_i[w])
                    => pc'[w] # pc[w]]_vars

\* One thread is inside AddElement while another waits at the critical region.
C9_Witness ==
    \E w, v \in Workers : pc[w] = "in_AddElement" /\ pc[v] = "wait_critical"

\* C10: at every moment the ids in the container are pairwise distinct, each is
\* the linear index + 1 of the cell the element was built from, and lies in
\* 1..nx*ny*nz.
C10_UniqueIdsFromGridIndex ==
    /\ \A k, l \in 1..Len(mpElementContainer) :
          mpElementContainer[k].id = mpElementContainer[l].id => k = l
    /\ \A e \in ContainerElements : e.id = e.box + 1 /\ e.id \in 1..NumCells
    /\ \A w \in Workers : pc[w] \in {"wait_critical", "in_AddElement"} =>
          new_element[w].id = index[w] + 1

C10_Witness ==
    /\ phase = "cells"
    /\ Len(mpElementContainer) = 1
    /\ \E w \in Workers : pc[w] = "in_AddElement"

(***************************************************************************)
(* Quadrature of one element.                                              *)
(*                                                                         *)
(* Weights and residuals are doubles in the program; the model keeps the   *)
(* order relations the code tests.  Weights are the levels 0..MaxWeight    *)
(* with EPS4 the absolute threshold and w < EPS1*max_value written as      *)
(* w*EPS1Inv < max_value.  Residuals are the levels 0..MaxResidual with    *)
(* MIND the smallest positive level, HardCutoff the level of 1e-2 and MAXD *)
(* above every level.                                                      *)
(***************************************************************************)
MaxWeight == 1
MaxResidual == 4
MaxFactor == 1
MaxLevel == 2
MaxSurplus == 1
\* maximum_iteration is 1000 in the program.  What the code compares it with
\* is the number of passes of the elimination loop, which grows with the
\* number of fitting functions N (a pass that removes a point is followed by
\* another, down to 4 points).  The model keeps that relation at its scale:
\* with N = 7 a run makes up to 5 passes, fewer or more than
\* maximum_iteration, as a run with N > 1002 can make more than 1000.
maximum_iteration == 4

EPS4 == 1
EPS1Inv == 2
MIND == 1
HardCutoff == 3
MAXD == MaxResidual + 1

\* Polynomial orders of the runs: N = 2 and N = 7 fitting functions.
Orders == {<<1, 0, 0>>, <<6, 0, 0>>}
\* Residual targets of the runs: 0.0 and a positive target below the cutoff.
AllowedResiduals == {0, 2}
InitFactors == 0..MaxFactor

number_of_functions == (order[1] + 1) * (order[2] + 1) * (order[3] + 1)

\* A point is what the model needs of an IntegrationPoint: its weight, and
\* whether it is a point the octree emitted (IsInside returned true for it).
IntegrationPoint(Weight) == [inside |-> TRUE, w |-> Weight]
\* A point that no seeding produced (value-initialised IntegrationPoint).
DefaultPoint == [inside |-> FALSE, w |-> 0]

Repeat(p, n) == [k \in 1..n |-> p]
RemoveAt(points, i) == SubSeq(points, 1, i - 1) \o SubSeq(points, i + 1, Len(points))
MaxOf(a, b) == IF a > b THEN a ELSE b

\* MomentFitting1 writes the weights of the NNLS solution onto the points.
SetWeights(points, weights) == [k \in 1..Len(points) |-> [points[k] EXCEPT !.w = weights[k]]]

\* The NNLS solver returns one weight >= 0 per point and a residual >= 0.
NNLSWeights(n) == [1..n -> 0..MaxWeight]
NNLSResiduals == 1..MaxResidual

\* The solutions of the first pass.  The candidates of the first pass differ
\* in nothing but the weight that MomentFitting1 overwrites, and the pass
\* sorts them by that weight: it is enough to draw the weights in
\* non-increasing order.
RECURSIVE NonIncreasing(_, _)
NonIncreasing(n, top) ==
    IF top = 0 THEN {Repeat(0, n)}
    ELSE UNION {{Repeat(top, j) \o s : s \in NonIncreasing(n - j, top - 1)} : j \in 0..n}

\* std::sort with the comparator a.GetWeight() > b.GetWeight().
RECURSIVE InsertByWeight(_, _)
InsertByWeight(p, sorted) ==
    IF sorted = <<>> THEN <<p>>
    ELSE IF p.w > Head(sorted).w THEN <<p>> \o sorted
    ELSE <<Head(sorted)>> \o InsertByWeight(p, Tail(sorted))

RECURSIVE SortByWeight(_)
SortByWeight(points) ==
    IF points = <<>> THEN <<>>
    ELSE InsertByWeight(Head(points), SortByWeight(Tail(points)))

\* A variant of the truncation that resizes the vector to n points.
EraseTail_Resize(points, n) ==
    [ok |-> TRUE,
     points |-> IF n <= Len(points) THEN SubSeq(points, 1, n)
                ELSE points \o Repeat(DefaultPoint, n - Len(points))]

\* rIntegrationPoint.erase(begin()+n, end()).  begin()+n past end() is
\* undefined behaviour; it happens only with an empty vector (null storage),
\* where the builds end in a fault at the next access: ok is FALSE.
EraseTail(points, n) ==
    IF n <= Len(points) THEN [ok |-> TRUE, points |-> SubSeq(points, 1, n)]
    ELSE [ok |-> FALSE, points |-> <<>>]

\* First index of the smallest weight (min_value_it), largest weight (max_value).
RECURSIVE MaxWeightOf(_)
MaxWeightOf(points) ==
    IF points = <<>> THEN 0 ELSE MaxOf(Head(points).w, MaxWeightOf(Tail(points)))

MinValueIt(points) ==
    CHOOSE i \in 1..Len(points) :
        /\ \A j \in 1..Len(points) : points[i].w <= points[j].w
        /\ \A j \in 1..(i - 1) : points[j].w > points[i].w

\* The erase loop: for(i = 0; i < size(); i++) if( w_i < EPS1*max_value &&
\* size() > 4 ) erase(begin_it + i).  The index moves on after an erase.
RECURSIVE EraseBelow(_, _, _)
EraseBelow(points, i, max_value) ==
    IF i > Len(points) THEN points
    ELSE IF points[i].w * EPS1Inv < max_value /\ Len(points) > 4
         THEN EraseBelow(RemoveAt(points, i), i + 1, max_value)
         ELSE EraseBelow(points, i + 1, max_value)

\* remove_if( weight < EPS4 ) without the removal.
PruneEPS4_KeepAll(points) == points

\* erase(remove_if( weight < EPS4 )).
PruneEPS4(points) == SelectSeq(points, LAMBDA p : ~(p.w < EPS4))

\* The condition of the while loop of PointElimination.
LoopCondition(removed, gres, iters) ==
    removed \/ (gres < allowed_residual /\ iters < maximum_iteration)

\* Variant of RoundBody: number_iterations is not pushed past maximum_iteration
\* when at most 4 points are left and none was removed.
RoundBody_NoStop(weights, r) ==
    LET fitted == SetWeights(integration_points, weights) IN
    IF r < allowed_residual
    THEN LET max_value == MaxWeightOf(fitted)
             erased == EraseBelow(fitted, 1, max_value)
             counter == Len(fitted) - Len(erased)
             after == IF counter = 0 /\ Len(erased) > 4
                      THEN RemoveAt(erased, MinValueIt(fitted)) ELSE erased
             removed == Len(after) < Len(fitted)
             iters == number_iterations
         IN [points |-> after, prev |-> fitted, pres |-> r, gres |-> r,
             removed |-> removed, iters |-> iters + 1]
    ELSE [points |-> fitted, prev |-> prev_solution, pres |-> prev_residual, gres |-> r,
          removed |-> FALSE, iters |-> number_iterations + 1]

\* One pass of the loop body after the first: the locals after the pass.
RoundBody(weights, r) ==
    LET fitted == SetWeights(integration_points, weights) IN
    IF r < allowed_residual
    THEN LET max_value == MaxWeightOf(fitted)
             erased == EraseBelow(fitted, 1, max_value)
             counter == Len(fitted) - Len(erased)
             after == IF counter = 0 /\ Len(erased) > 4
                      THEN RemoveAt(erased, MinValueIt(fitted)) ELSE erased
             removed == Len(after) < Len(fitted)
             iters == IF Len(after) <= 4 /\ ~removed
                      THEN maximum_iteration + 10 ELSE number_iterations
         IN [points |-> after, prev |-> fitted, pres |-> r, gres |-> r,
             removed |-> removed, iters |-> iters + 1]
    ELSE [points |-> fitted, prev |-> prev_solution, pres |-> prev_residual, gres |-> r,
          removed |-> FALSE, iters |-> number_iterations + 1]

\* What PointElimination stores on the element and returns after its loop.
Reduced(points, prev, gres, pres, iters) ==
    IF gres >= allowed_residual /\ Len(prev) > 0 /\ iters < maximum_iteration
    THEN [points |-> PruneEPS4(prev \o element_points), residual |-> pres]
    ELSE [points |-> PruneEPS4(points \o element_points), residual |-> gres]

\* Variant of ReturnFromElimination: the points are kept above the cutoff.
ReturnFromElimination_KeepPoints(points, prev, gres, pres, iters) ==
    LET red == Reduced(points, prev, gres, pres, iters) IN
    /\ integration_points' = points
    /\ residual' = red.residual
    /\ element_points' = red.points
    /\ point_distribution_factor' = point_distribution_factor * 2
    /\ iteration' = iteration + 1
    /\ mf_pc' = "while"
    /\ global_residual' = gres
    /\ prev_residual' = pres
    /\ number_iterations' = iters
    /\ point_removed' = FALSE
    /\ prev_solution' = prev

\* Variant of ReturnFromElimination: the factor grows by one.
ReturnFromElimination_Increment(points, prev, gres, pres, iters) ==
    LET red == Reduced(points, prev, gres, pres, iters) IN
    /\ integration_points' = points
    /\ residual' = red.residual
    /\ element_points' = IF red.residual > HardCutoff THEN <<>> ELSE red.points
    /\ point_distribution_factor' = point_distribution_factor + 1
    /\ iteration' = iteration + 1
    /\ mf_pc' = "while"
    /\ global_residual' = gres
    /\ prev_residual' = pres
    /\ number_iterations' = iters
    /\ point_removed' = FALSE
    /\ prev_solution' = prev

\* Return of PointElimination into CreateIntegrationPointsTrimmed, to the
\* next test of the outer loop: the hard cutoff, the doubled factor.  The
\* locals of PointElimination keep the values they had at the return until
\* the next call initialises them.
ReturnFromElimination(points, prev, gres, pres, iters) ==
    LET red == Reduced(points, prev, gres, pres, iters) IN
    /\ integration_points' = points
    /\ residual' = red.residual
    /\ element_points' = IF red.residual > HardCutoff THEN <<>> ELSE red.points
    /\ point_distribution_factor' = point_distribution_factor * 2
    /\ iteration' = iteration + 1
    /\ mf_pc' = "while"
    /\ global_residual' = gres
    /\ prev_residual' = pres
    /\ number_iterations' = iters
    /\ point_removed' = FALSE
    /\ prev_solution' = prev

\* IntegrationPointFactory1D::GetGauss: rOrder+1 points with positive weights
\* that sum to 1; the model keeps one weight unit per point.
GetGauss(rOrder) == Repeat(1, rOrder + 1)
\* |upper - lower| of the parametric box of the element.
ElementLengths == <<1, 1, 1>>

\* QuadratureSingleElement::AssembleIPs: the tensor product rule.
TensorRule(rOrder) ==
    LET ip_u == GetGauss(rOrder[1])
        ip_v == GetGauss(rOrder[2])
        ip_w == GetGauss(rOrder[3])
        n_u == Len(ip_u)
        n_v == Len(ip_v)
        n_w == Len(ip_w)
    IN [k \in 1..(n_u * n_v * n_w) |->
          LET u == ((k - 1) \div (n_v * n_w)) + 1
              v == (((k - 1) \div n_w) % n_v) + 1
              w == ((k - 1) % n_w) + 1
          IN IntegrationPoint(ip_u[u] * ElementLengths[1] * ip_v[v] * ElementLengths[2]
                              * ip_w[w] * ElementLengths[3])]

InitMF ==
    /\ ComputeOff
    /\ RayOff
    /\ GridOff
    /\ STLOff
    /\ is_trimmed \in BOOLEAN
    /\ order \in Orders
    /\ IF is_trimmed
       THEN /\ allowed_residual \in AllowedResiduals
            /\ point_distribution_factor \in InitFactors
            /\ mf_pc = "while"
       ELSE /\ allowed_residual = 0
            /\ point_distribution_factor = 0
            /\ mf_pc = "assemble"
    /\ residual = MAXD
    /\ iteration = 0
    /\ integration_points = <<>>
    /\ element_points = <<>>
    /\ refinemen_level = 0
    /\ octree_level = 0
    /\ global_residual = 0
    /\ prev_residual = 0
    /\ number_iterations = 0
    /\ point_removed = FALSE
    /\ prev_solution = <<>>

\* Inside element: the Gauss rule.
AssembleIPs ==
    /\ mf_pc = "assemble"
    /\ element_points' = TensorRule(order)
    /\ mf_pc' = "done"
    /\ UNCHANGED <<varsParamMF, residual, iteration, point_distribution_factor,
                   integration_points, refinemen_level, octree_level, varsElimination, varsNotMF>>

\* while( residual > MomentFittingResidual() && iteration < 4 ): enter
\* DistributeIntegrationPoints, or leave CreateIntegrationPointsTrimmed.
CreateIntegrationPointsTrimmed ==
    /\ mf_pc = "while"
    /\ IF residual > allowed_residual /\ iteration < 4
       THEN /\ refinemen_level' = MaxOf(octree_level, 1)
            /\ mf_pc' = "distribute"
       ELSE /\ mf_pc' = "done"
            /\ UNCHANGED refinemen_level
    /\ UNCHANGED <<varsParamMF, residual, iteration, point_distribution_factor,
                   integration_points, element_points, octree_level, varsElimination, varsNotMF>>

min_num_points == number_of_functions * point_distribution_factor

\* One pass of the loop of DistributeIntegrationPoints: refine the octree,
\* replace the candidates by the points the octree emits (all of them tested
\* inside the trimmed domain; any number of them).
DistributeIntegrationPoints ==
    /\ mf_pc = "distribute"
    /\ Len(integration_points) < min_num_points
    /\ refinemen_level <= MaxLevel
    /\ \E yield \in 0..(min_num_points + MaxSurplus), weight \in 1..MaxWeight :
          integration_points' = Repeat(IntegrationPoint(weight), yield)
    /\ octree_level' = refinemen_level
    /\ refinemen_level' = refinemen_level + 1
    /\ UNCHANGED <<varsParamMF, mf_pc, residual, iteration, point_distribution_factor,
                   element_points, varsElimination, varsNotMF>>

\* Exit of the seeding loop; the old points of the element join the
\* candidates; entry of PointElimination.  If its loop is not entered at all
\* the call returns at once.
PointElimination ==
    /\ mf_pc = "distribute"
    /\ ~(Len(integration_points) < min_num_points)
    /\ LET candidates == integration_points \o element_points IN
       IF LoopCondition(FALSE, MIND, 0)
       THEN /\ integration_points' = candidates
            /\ element_points' = <<>>
            /\ global_residual' = MIND
            /\ prev_residual' = 0
            /\ number_iterations' = 0
            /\ point_removed' = FALSE
            /\ prev_solution' = <<>>
            /\ mf_pc' = "eliminate"
            /\ UNCHANGED <<residual, iteration, point_distribution_factor>>
       ELSE LET red == [points |-> PruneEPS4(candidates), residual |-> MIND] IN
            /\ integration_points' = candidates
            /\ residual' = red.residual
            /\ element_points' = IF red.residual > HardCutoff THEN <<>> ELSE red.points
            /\ point_distribution_factor' = point_distribution_factor * 2
            /\ iteration' = iteration + 1
            /\ mf_pc' = "while"
            /\ global_residual' = MIND
            /\ prev_residual' = 0
            /\ number_iterations' = 0
            /\ point_removed' = FALSE
            /\ prev_solution' = <<>>
    /\ UNCHANGED <<varsParamMF, refinemen_level, octree_level, varsNotMF>>

\* First pass of the loop (number_iterations == 0): fit, sort by weight, keep
\* number_of_functions points.
FirstPass ==
    /\ mf_pc = "eliminate"
    /\ number_iterations = 0
    /\ \E weights \in NonIncreasing(Len(integration_points), MaxWeight), r \in NNLSResiduals :
          LET fitted == SetWeights(integration_points, weights)
              kept == EraseTail(SortByWeight(fitted), number_of_functions)
          IN IF kept.ok
             THEN /\ integration_points' = kept.points
                  /\ global_residual' = r
                  /\ point_removed' = TRUE
                  /\ number_iterations' = 1
                  /\ UNCHANGED mf_pc
             ELSE /\ mf_pc' = "crashed"
                  /\ UNCHANGED <<integration_points, global_residual, point_removed,
                                 number_iterations>>
    /\ UNCHANGED <<varsParamMF, residual, iteration, point_distribution_factor, element_points,
                   refinemen_level, octree_level, prev_residual, prev_solution, varsNotMF>>

\* A later pass after which the loop goes on.
EliminationPass ==
    /\ mf_pc = "eliminate"
    /\ number_iterations > 0
    /\ LoopCondition(point_removed, global_residual, number_iterations)
    /\ \E weights \in NNLSWeights(Len(integration_points)), r \in NNLSResiduals :
          LET b == RoundBody(weights, r) IN
          /\ LoopCondition(b.removed, b.gres, b.iters)
          /\ integration_points' = b.points
          /\ prev_solution' = b.prev
          /\ prev_residual' = b.pres
          /\ global_residual' = b.gres
          /\ point_removed' = b.removed
          /\ number_iterations' = b.iters
    /\ UNCHANGED <<varsParamMF, mf_pc, residual, iteration, point_distribution_factor,
                   element_points, refinemen_level, octree_level, varsNotMF>>

\* A later pass after which the loop ends: PointElimination stores the
\* reduced points and returns.
LastPass ==
    /\ mf_pc = "eliminate"
    /\ number_iterations > 0
    /\ LoopCondition(point_removed, global_residual, number_iterations)
    /\ \E weights \in NNLSWeights(Len(integration_points)), r \in NNLSResiduals :
          LET b == RoundBody(weights, r) IN
          /\ ~LoopCondition(b.removed, b.gres, b.iters)
          /\ ReturnFromElimination(b.points, b.prev, b.gres, b.pres, b.iters)
    /\ UNCHANGED <<varsParamMF, refinemen_level, octree_level, varsNotMF>>

NextMF ==
    \/ AssembleIPs
    \/ CreateIntegrationPointsTrimmed
    \/ DistributeIntegrationPoints
    \/ PointElimination
    \/ FirstPass
    \/ EliminationPass
    \/ LastPass

SpecMF == InitMF /\ [][NextMF]_vars

(***************************************************************************)
(* Properties of the quadrature of one element.                            *)
(***************************************************************************)
StoredPoints == {element_points[k] : k \in 1..Len(element_points)}

\* C1: every integration point stored on an element, trimmed or inside, has
\* a weight > 0, and no point stored on a trimmed element has a weight below
\* the absolute threshold EPS4.
C1_StoredWeightsPositive ==
    /\ \A p \in StoredPoints : p.w > 0
    /\ is_trimmed => \A p \in StoredPoints : ~(p.w < EPS4)

\* The routine has returned with points on the element, fewer than the final
\* candidate set had: the fitted weights below EPS4 were removed.
C1_Witness ==
    /\ mf_pc = "done"
    /\ is_trimmed
    /\ allowed_residual > MIND
    /\ element_points # <<>>
    /\ Len(element_points) < Len(integration_points)
    /\ \E k \in 1..Len(integration_points) : integration_points[k].w < EPS4

\* C2: for every polynomial order, residual target and distribution factor
\* the number of points stored on a trimmed element is at most
\* N = (p_u+1)(p_v+1)(p_w+1), retries included.
C2_AtMostNPoints ==
    is_trimmed => Len(element_points) <= number_of_functions

\* C3: every point stored on a trimmed element is a point the octree
\* emitted (IsInside true); elimination and the retries only re-weight, drop
\* or carry over such points.
C3_StoredPointsAreSeeded ==
    is_trimmed => \A p \in StoredPoints : p.inside

\* A retry has run: the points of an earlier attempt were carried into the
\* candidate set of a later one, and the element ends with points.
C3_Witness ==
    /\ mf_pc = "done"
    /\ is_trimmed
    /\ allowed_residual > MIND
    /\ iteration >= 2
    /\ element_points # <<>>

(***************************************************************************)
(* Point classification by ray casting.                                    *)
(*                                                                         *)
(* Meshes have integer vertices and query points are lattice points, so    *)
(* every quantity of a ray-triangle test is an exact rational: t, u and v  *)
(* are kept as numerators over the common denominator |det|.  The          *)
(* direction is 3*(Center - rPoint), a positive multiple of the normalised *)
(* direction.  With exact values the tolerances EPS2 and EPS3 decide only  *)
(* the cases t = 0 and u = 0, v = 0, u + v = 1.                            *)
(***************************************************************************)
MaxCoord == 4

Vec(x, y, z) == <<x, y, z>>
Sub(a, b) == <<a[1] - b[1], a[2] - b[2], a[3] - b[3]>>
Dot(a, b) == a[1] * b[1] + a[2] * b[2] + a[3] * b[3]
Cross(a, b) == <<a[2] * b[3] - a[3] * b[2], a[3] * b[1] - a[1] * b[3], a[1] * b[2] - a[2] * b[1]>>
MinOf(a, b) == IF a < b THEN a ELSE b

Triangle(a, b, c) == [p1 |-> a, p2 |-> b, p3 |-> c]

\* The closed surface of an axis-aligned box, two triangles per face, normals
\* (p2-p1) x (p3-p1) pointing out of the solid.
BoxMesh(lo, hi) ==
    LET x0 == lo[1]  x1 == hi[1]
        y0 == lo[2]  y1 == hi[2]
        z0 == lo[3]  z1 == hi[3]
    IN << Triangle(Vec(x1,y0,z0), Vec(x1,y1,z0), Vec(x1,y1,z1)),
          Triangle(Vec(x1,y0,z0), Vec(x1,y1,z1), Vec(x1,y0,z1)),
          Triangle(Vec(x0,y0,z0), Vec(x0,y0,z1), Vec(x0,y1,z1)),
          Triangle(Vec(x0,y0,z0), Vec(x0,y1,z1), Vec(x0,y1,z0)),
          Triangle(Vec(x0,y1,z0), Vec(x0,y1,z1), Vec(x1,y1,z1)),
          Triangle(Vec(x0,y1,z0), Vec(x1,y1,z1), Vec(x1,y1,z0)),
          Triangle(Vec(x0,y0,z0), Vec(x1,y0,z0), Vec(x1,y0,z1)),
          Triangle(Vec(x0,y0,z0), Vec(x1,y0,z1), Vec(x0,y0,z1)),
          Triangle(Vec(x0,y0,z1), Vec(x1,y0,z1), Vec(x1,y1,z1)),
          Triangle(Vec(x0,y0,z1), Vec(x1,y1,z1), Vec(x0,y1,z1)),
          Triangle(Vec(x0,y0,z0), Vec(x0,y1,z0), Vec(x1,y1,z0)),
          Triangle(Vec(x0,y0,z0), Vec(x1,y1,z0), Vec(x1,y0,z0)) >>

\* The closed surface of the tetrahedron (1,1,1), (3,1,1), (1,2,1), (1,1,2).
TetraMesh ==
    << Triangle(Vec(1,1,1), Vec(1,1,2), Vec(1,2,1)),
       Triangle(Vec(1,1,1), Vec(3,1,1), Vec(1,1,2)),
       Triangle(Vec(1,1,1), Vec(1,2,1), Vec(3,1,1)),
       Triangle(Vec(1,1,2), Vec(3,1,1), Vec(1,2,1)) >>

\* The closed surface of the tetrahedron (0,0,0), (0,0,1), (0,2,0), (3,2,2):
\* rays from inside it to the centre of one face are parallel to another.
WedgeMesh ==
    << Triangle(Vec(0,0,0), Vec(0,0,1), Vec(0,2,0)),
       Triangle(Vec(0,0,0), Vec(3,2,2), Vec(0,0,1)),
       Triangle(Vec(0,0,0), Vec(0,2,0), Vec(3,2,2)),
       Triangle(Vec(0,0,1), Vec(3,2,2), Vec(0,2,0)) >>

\* The runs: the full B-Rep mesh, the cell, and the clipped and capped mesh
\* of the solid inside the cell, which the TrimmedDomain of the cell owns.
\*   whole   : a box, the cell holds all of it;
\*   corner  : the same box, the cell cuts a corner out of it;
\*   inside  : the cell lies inside the solid, no triangle is left;
\*   two     : a solid of two boxes, the cell holds all of it;
\*   two_cut : the same solid, the cell cuts a part out of each box;
\*   tetra   : a tetrahedron, the cell holds all of it;
\*   wedge   : a flat tetrahedron, the cell holds all of it.
Scenes ==
    [whole   |-> [brep    |-> BoxMesh(Vec(0,0,0), Vec(3,3,3)),
                  cell    |-> [lo |-> Vec(-1,-1,-1), hi |-> Vec(MaxCoord+1,MaxCoord+1,MaxCoord+1)],
                  clipped |-> BoxMesh(Vec(0,0,0), Vec(3,3,3))],
     corner  |-> [brep    |-> BoxMesh(Vec(0,0,0), Vec(3,3,3)),
                  cell    |-> [lo |-> Vec(1,1,1), hi |-> Vec(MaxCoord+1,MaxCoord+1,MaxCoord+1)],
                  clipped |-> BoxMesh(Vec(1,1,1), Vec(3,3,3))],
     inside  |-> [brep    |-> BoxMesh(Vec(0,0,0), Vec(4,4,4)),
                  cell    |-> [lo |-> Vec(1,1,1), hi |-> Vec(3,3,3)],
                  clipped |-> <<>>],
     two     |-> [brep    |-> BoxMesh(Vec(0,0,0), Vec(3,2,2)) \o BoxMesh(Vec(2,3,1), Vec(4,4,4)),
                  cell    |-> [lo |-> Vec(-1,-1,-1), hi |-> Vec(MaxCoord+1,MaxCoord+1,MaxCoord+1)],
                  clipped |-> BoxMesh(Vec(0,0,0), Vec(3,2,2)) \o BoxMesh(Vec(2,3,1), Vec(4,4,4))],
     two_cut |-> [brep    |-> BoxMesh(Vec(0,0,0), Vec(3,2,2)) \o BoxMesh(Vec(2,3,1), Vec(4,4,4)),
                  cell    |-> [lo |-> Vec(1,-1,-1), hi |-> Vec(MaxCoord+1,MaxCoord+1,3)],
                  clipped |-> BoxMesh(Vec(1,0,0), Vec(3,2,2)) \o BoxMesh(Vec(2,3,1), Vec(4,4,3))],
     tetra   |-> [brep    |-> TetraMesh,
                  cell    |-> [lo |-> Vec(-1,-1,-1), hi |-> Vec(MaxCoord+1,MaxCoord+1,MaxCoord+1)],
                  clipped |-> TetraMesh],
     wedge   |-> [brep    |-> WedgeMesh,
                  cell    |-> [lo |-> Vec(-1,-1,-1), hi |-> Vec(MaxCoord+1,MaxCoord+1,MaxCoord+1)],
                  clipped |-> WedgeMesh]]

SceneNames == {"whole", "corner", "inside", "two", "two_cut", "tetra", "wedge"}
Lattice == {Vec(x, y, z) : x \in 0..MaxCoord, y \in 0..MaxCoord, z \in 0..MaxCoord}

\* ---- Ray_AABB_primitive and the AABB tree
Ray(Origin, Direction) == [origin |-> Origin, direction |-> Direction]

\* Moeller-Trumbore.  u, v, t are numerators over den = |det| > 0.
RayIntersect(ray, tri) ==
    LET e1 == Sub(tri.p2, tri.p1)
        e2 == Sub(tri.p3, tri.p1)
        pvec == Cross(ray.direction, e2)
        det == Dot(e1, pvec)
        tvec == Sub(ray.origin, tri.p1)
        qvec == Cross(tvec, e1)
        sgn == IF det < 0 THEN -1 ELSE 1
        un == sgn * Dot(tvec, pvec)
        vn == sgn * Dot(ray.direction, qvec)
        tn == sgn * Dot(e2, qvec)
        dn == sgn * det
    IN [parallel |-> det = 0,
        back_facing |-> det < 0,
        intersect |-> det # 0 /\ un >= 0 /\ vn >= 0 /\ un + vn <= dn /\ tn >= 0,
        u |-> un, v |-> vn, t |-> tn, den |-> dn]

RayIsParallel(ray, tri) == RayIntersect(ray, tri).parallel

TriangleBox(tri) ==
    [lo |-> [a \in 1..3 |-> MinOf(tri.p1[a], MinOf(tri.p2[a], tri.p3[a]))],
     hi |-> [a \in 1..3 |-> MaxOf(tri.p1[a], MaxOf(tri.p2[a], tri.p3[a]))]]

\* Slab test: the parameter intervals of the three axes and [0, oo) meet.
RayEntersBox(ray, box) ==
    LET d == ray.direction
        o == ray.origin
        Den(a) == IF d[a] > 0 THEN d[a] ELSE -d[a]
        Low(a) == IF d[a] > 0 THEN box.lo[a] - o[a] ELSE o[a] - box.hi[a]
        Upp(a) == IF d[a] > 0 THEN box.hi[a] - o[a] ELSE o[a] - box.lo[a]
        Moving == {a \in 1..3 : d[a] # 0}
    IN /\ \A a \in (1..3) \ Moving : box.lo[a] <= o[a] /\ o[a] <= box.hi[a]
       /\ \A a \in Moving : Upp(a) >= 0
       /\ \A a, b \in Moving : Low(a) * Den(b) <= Upp(b) * Den(a)

\* ---- the mesh of a query
NumOfTriangles(mesh) == Len(mesh)
\* Triangle id of the mesh, for the numbering that starts at triangle first.
TriangleAt(mesh, first, id) == mesh[((id + first) % NumOfTriangles(mesh)) + 1]
\* 3*(Center(id) - point).
Direction(tri, point) ==
    [a \in 1..3 |-> tri.p1[a] + tri.p2[a] + tri.p3[a] - 3 * point[a]]
RayTo(mesh, first, id, point) == Ray(point, Direction(TriangleAt(mesh, first, id), point))

\* mTree.Query(ray): the ids of the triangles whose box the ray enters.
Query(mesh, first, ray) ==
    {r \in 0..(NumOfTriangles(mesh) - 1) : RayEntersBox(ray, TriangleBox(TriangleAt(mesh, first, r)))}

\* Distances along one ray: numerator over a positive denominator.
Distance(n, d) == [n |-> n, d |-> d]
MaxDistance == Distance(1, 0)
\* The update test that takes every hit.
Closer_Always(t, min_distance_) == TRUE
\* The update test that keeps the farthest hit.
Closer_Farthest(t, min_distance_) ==
    min_distance_.d = 0 \/ t.n * min_distance_.d > min_distance_.n * t.d
\* t < min_distance
Closer(t, min_distance_) == t.n * min_distance_.d < min_distance_.n * t.d
\* The origin test that never fires.
OriginOnBoundary_Never(hit) == FALSE
\* t < EPS2
OriginOnBoundary(hit) == hit.t <= 0
\* The boundary test that never fires.
OnTriangleBoundary_Never(hit) == FALSE
\* u < 0.0+EPS3 || v < 0.0+EPS3 || sum_u_v > 1.0-EPS3
OnTriangleBoundary(hit) == hit.u <= 0 \/ hit.v <= 0 \/ hit.u + hit.v >= hit.den

\* ---- BRepOperator::IsInside: the oracle on the full mesh.  Rays are aimed
\* at the centres of the triangles in the order of the mesh; a cast with a
\* hit at the origin answers false, a cast that is parallel to its target or
\* has a hit on a triangle boundary is retried with the next triangle, and
\* the closest hit of an accepted cast answers with its back_facing flag.
RECURSIVE BRepCast(_, _, _)
BRepCast(mesh, point, id) ==
    IF id >= NumOfTriangles(mesh) THEN FALSE
    ELSE LET ray == RayTo(mesh, 0, id, point)
             hits == {h \in {RayIntersect(ray, TriangleAt(mesh, 0, r)) : r \in Query(mesh, 0, ray)} :
                        h.intersect}
         IN IF RayIsParallel(ray, TriangleAt(mesh, 0, id)) THEN BRepCast(mesh, point, id + 1)
            ELSE IF \E h \in hits : h.t = 0 THEN FALSE
            ELSE IF \E h \in hits : h.u = 0 \/ h.v = 0 \/ h.u + h.v = h.den
                 THEN BRepCast(mesh, point, id + 1)
            ELSE IF hits = {} THEN FALSE
            ELSE LET nearest == CHOOSE h \in hits : \A g \in hits : h.t * g.den <= g.t * h.den
                 IN nearest.back_facing

BRepIsInside(mesh, point) == BRepCast(mesh, point, 0)

\* ---- TrimmedDomain::IsInsideTrimmedDomain
mClippedMesh == Scenes[scene].clipped
num_triangles == NumOfTriangles(mClippedMesh)
CurrentTriangle == TriangleAt(mClippedMesh, first_triangle, current_id)
CurrentRay == RayTo(mClippedMesh, first_triangle, current_id, rPoint)
\* direction.Norm() is 0: rPoint is the centre of the triangle aimed at.
ZeroDirection == CurrentRay.direction = Vec(0, 0, 0)

InitRay ==
    /\ ComputeOff
    /\ MFOff
    /\ GridOff
    /\ STLOff
    /\ scene \in SceneNames
    /\ rPoint \in Lattice
    /\ first_triangle \in 0..MaxOf(NumOfTriangles(Scenes[scene].clipped) - 1, 0)
    /\ ray_pc = "entry"
    /\ current_id = 0
    /\ try_next_triangle = FALSE
    /\ is_inside = FALSE
    /\ min_distance = MaxDistance
    /\ potential_intersections = {}
    /\ result = FALSE

Return(value) ==
    /\ ray_pc' = "returned"
    /\ result' = value

\* Variant of the entry: an empty mesh returns false.
IsInsideTrimmedDomain_EmptyIsOutside ==
    /\ ray_pc = "entry"
    /\ IF num_triangles = 0
       THEN /\ Return(FALSE)
            /\ UNCHANGED try_next_triangle
       ELSE /\ try_next_triangle' = TRUE
            /\ ray_pc' = "while"
            /\ UNCHANGED result
    /\ UNCHANGED <<scene, rPoint, first_triangle, current_id, is_inside, min_distance,
                   potential_intersections, varsNotRay>>

\* Entry: an empty mesh returns true; else the loop starts.
IsInsideTrimmedDomain ==
    /\ ray_pc = "entry"
    /\ IF num_triangles = 0
       THEN /\ Return(TRUE)
            /\ UNCHANGED try_next_triangle
       ELSE /\ try_next_triangle' = TRUE
            /\ ray_pc' = "while"
            /\ UNCHANGED result
    /\ UNCHANGED <<scene, rPoint, first_triangle, current_id, is_inside, min_distance,
                   potential_intersections, varsNotRay>>

\* The loop condition fails: return is_inside.
ReturnIsInside ==
    /\ ray_pc = "while"
    /\ ~try_next_triangle
    /\ Return(is_inside)
    /\ UNCHANGED <<scene, rPoint, first_triangle, current_id, try_next_triangle, is_inside,
                   min_distance, potential_intersections, varsNotRay>>

\* All triangles were aimed at and no cast was valid.
ReturnAllTested ==
    /\ ray_pc = "while"
    /\ try_next_triangle
    /\ current_id >= num_triangles
    /\ Return(FALSE)
    /\ UNCHANGED <<scene, rPoint, first_triangle, current_id, try_next_triangle, is_inside,
                   min_distance, potential_intersections, varsNotRay>>

\* The triangle aimed at is parallel to the ray: on to the next triangle.
TargetIsParallel ==
    /\ ray_pc = "while"
    /\ try_next_triangle
    /\ current_id < num_triangles
    /\ ~ZeroDirection
    /\ RayIsParallel(CurrentRay, CurrentTriangle)
    /\ current_id' = current_id + 1
    /\ UNCHANGED <<scene, rPoint, first_triangle, ray_pc, try_next_triangle, is_inside,
                   min_distance, potential_intersections, result, varsNotRay>>

\* The candidates on which the body of the for loop acts: those the ray
\* intersects, not parallel.  A pass over any other candidate changes nothing.
Intersected(candidates) ==
    {r \in candidates :
        LET hit == RayIntersect(CurrentRay, TriangleAt(mClippedMesh, first_triangle, r))
        IN hit.intersect /\ ~hit.parallel}

\* A ray is cast: the tree is asked for the candidates.  A step of the for
\* loop is a pass for an intersected candidate, with the passes without
\* effect before it; if no candidate is intersected the loop ends at once.
CastRay ==
    /\ ray_pc = "while"
    /\ try_next_triangle
    /\ current_id < num_triangles
    /\ ~ZeroDirection
    /\ ~RayIsParallel(CurrentRay, CurrentTriangle)
    /\ LET candidates == Query(mClippedMesh, first_triangle, CurrentRay) IN
       IF candidates = {}
       THEN /\ ray_pc' = "thrown"
            /\ UNCHANGED <<current_id, try_next_triangle, is_inside, min_distance,
                           potential_intersections>>
       ELSE /\ try_next_triangle' = FALSE
            /\ min_distance' = MaxDistance
            /\ is_inside' = FALSE
            /\ IF Intersected(candidates) = {}
               THEN /\ current_id' = current_id + 1
                    /\ UNCHANGED <<ray_pc, potential_intersections>>
               ELSE /\ potential_intersections' = Intersected(candidates)
                    /\ ray_pc' = "for"
                    /\ UNCHANGED current_id
    /\ UNCHANGED <<scene, rPoint, first_triangle, result, varsNotRay>>

\* rPoint is the centre of the triangle aimed at: the direction is 0/0 in
\* every component.  No comparison with t, u or v then holds at lines 73-83,
\* so the cast can set neither is_inside nor try_next_triangle; whether the
\* ray counts as parallel and which candidates the tree returns is decided
\* by code on a NaN ray: each outcome is possible.
CastZeroDirection ==
    /\ ray_pc = "while"
    /\ try_next_triangle
    /\ current_id < num_triangles
    /\ ZeroDirection
    /\ \/ /\ current_id' = current_id + 1
          /\ UNCHANGED <<ray_pc, try_next_triangle, is_inside, min_distance>>
       \/ /\ ray_pc' = "thrown"
          /\ UNCHANGED <<current_id, try_next_triangle, is_inside, min_distance>>
       \/ /\ try_next_triangle' = FALSE
          /\ min_distance' = MaxDistance
          /\ is_inside' = FALSE
          /\ current_id' = current_id + 1
          /\ UNCHANGED ray_pc
    /\ UNCHANGED <<scene, rPoint, first_triangle, potential_intersections, result, varsNotRay>>

\* Variant of NextTriangle: the next triangle is skipped.
NextTriangle_SkipOne ==
    /\ current_id' = current_id + 2
    /\ potential_intersections' = {}
    /\ ray_pc' = "while"

\* End of the for loop (by its end or by break): current_id++.
NextTriangle ==
    /\ current_id' = current_id + 1
    /\ potential_intersections' = {}
    /\ ray_pc' = "while"

\* One pass of the for loop for an intersected candidate, the candidates
\* taken in the order of the tree (any order).
TestIntersection ==
    /\ ray_pc = "for"
    /\ \E r \in potential_intersections :
          LET hit == RayIntersect(CurrentRay, TriangleAt(mClippedMesh, first_triangle, r))
          IN IF OriginOnBoundary(hit)
             THEN /\ Return(FALSE)
                  /\ UNCHANGED <<current_id, try_next_triangle, is_inside, min_distance,
                                 potential_intersections>>
             ELSE IF OnTriangleBoundary(hit)
             THEN /\ try_next_triangle' = TRUE
                  /\ NextTriangle
                  /\ UNCHANGED <<is_inside, min_distance, result>>
             ELSE /\ IF Closer(Distance(hit.t, hit.den), min_distance)
                     THEN /\ is_inside' = hit.back_facing
                          /\ min_distance' = Distance(hit.t, hit.den)
                     ELSE UNCHANGED <<is_inside, min_distance>>
                  /\ IF potential_intersections = {r}
                     THEN NextTriangle
                     ELSE /\ potential_intersections' = potential_intersections \ {r}
                          /\ UNCHANGED <<current_id, ray_pc>>
                  /\ UNCHANGED <<try_next_triangle, result>>
    /\ UNCHANGED <<scene, rPoint, first_triangle, varsNotRay>>

NextRay ==
    \/ IsInsideTrimmedDomain
    \/ ReturnIsInside
    \/ ReturnAllTested
    \/ TargetIsParallel
    \/ CastRay
    \/ CastZeroDirection
    \/ TestIntersection

SpecRay == InitRay /\ [][NextRay]_vars

(***************************************************************************)
(* Properties of the point classification.                                 *)
(***************************************************************************)
\* The point lies on the triangle, its edges and vertices included.
PointOnTriangle(point, tri) ==
    LET n == Cross(Sub(tri.p2, tri.p1), Sub(tri.p3, tri.p1)) IN
    /\ Dot(n, Sub(point, tri.p1)) = 0
    /\ Dot(Cross(Sub(tri.p2, tri.p1), Sub(point, tri.p1)), n) >= 0
    /\ Dot(Cross(Sub(tri.p3, tri.p2), Sub(point, tri.p2)), n) >= 0
    /\ Dot(Cross(Sub(tri.p1, tri.p3), Sub(point, tri.p3)), n) >= 0

OnSurface(point, mesh) == \E k \in 1..Len(mesh) : PointOnTriangle(point, mesh[k])

StrictlyInsideCell(point) ==
    \A a \in 1..3 : Scenes[scene].cell.lo[a] < point[a] /\ point[a] < Scenes[scene].cell.hi[a]

C7_PointOnTriangleNotInside ==
    (ray_pc = "returned" /\ OnSurface(rPoint, mClippedMesh)) => ~result

\* The test has returned false for a point on a triangle after a cast that
\* recorded another hit before the hit at the origin was tested.
C7_Witness ==
    /\ ray_pc = "returned"
    /\ OnSurface(rPoint, mClippedMesh)
    /\ ~result
    /\ min_distance # MaxDistance
    /\ first_triangle > 0
    /\ current_id > 0

(***************************************************************************)
(* Grid indexing (VoxelIndexing) and the neighbour walks of the element    *)
(* container.  Indices are zero-based, element ids are index + 1.          *)
(***************************************************************************)
MaxElementsPerDirection == 3

GridSizes == {<<nx, ny, nz>> : nx \in 1..MaxElementsPerDirection,
                               ny \in 1..MaxElementsPerDirection,
                               nz \in 1..MaxElementsPerDirection}
Axes == {"X", "Y", "Z"}
NumberOfCells(n) == n[1] * n[2] * n[3]

\* Variant: the column is taken from Index, not from the index in the plane.
GetMatrixIndicesFromVectorIndex_NoPlane(Index, rNumberOfElements) ==
    << Index % rNumberOfElements[1],
       Index \div rNumberOfElements[1],
       Index \div (rNumberOfElements[1] * rNumberOfElements[2]) >>

\* <<row, column, depth>> of a vector index.
GetMatrixIndicesFromVectorIndex(Index, rNumberOfElements) ==
    LET index_in_row_column_plane == Index % (rNumberOfElements[1] * rNumberOfElements[2])
    IN << index_in_row_column_plane % rNumberOfElements[1],
          index_in_row_column_plane \div rNumberOfElements[1],
          Index \div (rNumberOfElements[1] * rNumberOfElements[2]) >>

\* Variant: the column is weighted with the number of columns.
GetVectorIndexFromMatrixIndices_ColumnStride(RowIndex, ColumnIndex, DepthIndex, rNumberOfElements) ==
    DepthIndex * (rNumberOfElements[2] * rNumberOfElements[1])
        + ColumnIndex * rNumberOfElements[2] + RowIndex

GetVectorIndexFromMatrixIndices(RowIndex, ColumnIndex, DepthIndex, rNumberOfElements) ==
    DepthIndex * (rNumberOfElements[2] * rNumberOfElements[1])
        + ColumnIndex * rNumberOfElements[1] + RowIndex

\* ---- ElementContainer
\* Id of the element at the matrix indices.
IdAt(indices) ==
    GetVectorIndexFromMatrixIndices(indices[1], indices[2], indices[3], number_of_elements) + 1
IndicesOf(id) == GetMatrixIndicesFromVectorIndex(id - 1, number_of_elements)

\* pGetElement(id, found)
IsFound(id) == id \in container_ids

\* The step to the next element of a walk and whether the element reached
\* is the last of its line; fast, then mid, then slow is the order of the axes.
NextIndices(indices, fast, mid, slow) ==
    IF indices[fast] < number_of_elements[fast] - 1
    THEN [indices EXCEPT ![fast] = @ + 1]
    ELSE IF indices[mid] < number_of_elements[mid] - 1
    THEN [indices EXCEPT ![mid] = @ + 1, ![fast] = 0]
    ELSE [indices EXCEPT ![slow] = @ + 1, ![mid] = 0, ![fast] = 0]

PreviousIndices(indices, fast, mid, slow) ==
    IF indices[fast] > 0
    THEN [indices EXCEPT ![fast] = @ - 1]
    ELSE IF indices[mid] > 0
    THEN [indices EXCEPT ![mid] = @ - 1, ![fast] = number_of_elements[fast] - 1]
    ELSE [indices EXCEPT ![slow] = @ - 1, ![mid] = number_of_elements[mid] - 1,
                         ![fast] = number_of_elements[fast] - 1]

\* Variant of LocalEnd: the end of a line is reported only if nothing is found.
LocalEnd_OnlyNotFound(next_indices, fast, is_found) == ~is_found

\* local_end of a forward walk.
LocalEnd(next_indices, fast, is_found) ==
    next_indices[fast] = number_of_elements[fast] - 1 \/ ~is_found

Walk(next_indices, fast) ==
    [next_id |-> IdAt(next_indices),
     found |-> IsFound(IdAt(next_indices)),
     local_end |-> LocalEnd(next_indices, fast, IsFound(IdAt(next_indices)))]

pGetNextElementInX(id) == Walk(IndicesOf(id + 1), 1)
pGetNextElementInY(id) == Walk(NextIndices(IndicesOf(id), 2, 1, 3), 2)
pGetNextElementInZ(id) == Walk(NextIndices(IndicesOf(id), 3, 1, 2), 3)

pGetPreviousElementInX(id) == id - 1
pGetPreviousElementInY(id) == IdAt(PreviousIndices(IndicesOf(id), 2, 1, 3))
pGetPreviousElementInZ(id) == IdAt(PreviousIndices(IndicesOf(id), 3, 1, 2))

\* ---- a walk over the container: the calls of TestElementContainerX, Y, Z
\* on a grid whose container lacks at most one element.
InitGrid ==
    /\ ComputeOff
    /\ MFOff
    /\ RayOff
    /\ STLOff
    /\ number_of_elements \in GridSizes
    /\ \E missing \in {{}} \cup {{h} : h \in 1..NumberOfCells(number_of_elements)} :
          container_ids = (1..NumberOfCells(number_of_elements)) \ missing
    /\ axis \in Axes
    /\ walk_pc = "next"
    /\ walk_i = 1
    /\ walk_current_id = 1
    /\ next_id = 0
    /\ found = FALSE
    /\ local_end = FALSE
    /\ reverse_id = 0

\* container->pGetNextElementIn<axis>(current_id, next_id, found, local_end)
GetNextElement ==
    /\ walk_pc = "next"
    /\ walk_i < NumberOfCells(number_of_elements)
    /\ LET r == CASE axis = "X" -> pGetNextElementInX(walk_current_id)
                  [] axis = "Y" -> pGetNextElementInY(walk_current_id)
                  [] axis = "Z" -> pGetNextElementInZ(walk_current_id)
       IN /\ next_id' = r.next_id
          /\ found' = r.found
          /\ local_end' = r.local_end
          /\ walk_pc' = IF r.found THEN "previous" ELSE "advance"
    /\ UNCHANGED <<number_of_elements, container_ids, axis, walk_i, walk_current_id,
                   reverse_id, varsNotGrid>>

\* container->pGetPreviousElementIn<axis>(next_id, reverse_id, ...)
GetPreviousElement ==
    /\ walk_pc = "previous"
    /\ reverse_id' = CASE axis = "X" -> pGetPreviousElementInX(next_id)
                       [] axis = "Y" -> pGetPreviousElementInY(next_id)
                       [] axis = "Z" -> pGetPreviousElementInZ(next_id)
    /\ walk_pc' = "advance"
    /\ UNCHANGED <<number_of_elements, container_ids, axis, walk_i, walk_current_id,
                   next_id, found, local_end, varsNotGrid>>

\* current_id = next_id; ++i
AdvanceWalk ==
    /\ walk_pc = "advance"
    /\ walk_current_id' = next_id
    /\ walk_i' = walk_i + 1
    /\ walk_pc' = "next"
    /\ UNCHANGED <<number_of_elements, container_ids, axis, next_id, found, local_end,
                   reverse_id, varsNotGrid>>

NextGrid ==
    \/ GetNextElement
    \/ GetPreviousElement
    \/ AdvanceWalk

SpecGrid == InitGrid /\ [][NextGrid]_vars

(***************************************************************************)
(* Properties of the grid indexing and of the walks.                       *)
(***************************************************************************)
\* C11: GetVectorIndexFromMatrixIndices(i, j, k) is k*nx*ny + j*nx + i, and
\* GetMatrixIndicesFromVectorIndex is its inverse: both round trips are the
\* identity on the cells and on 0..nx*ny*nz-1.
C11_IndexRoundTrip ==
    LET n == number_of_elements IN
    walk_pc # "off" =>
    /\ \A i \in 0..(n[1] - 1), j \in 0..(n[2] - 1), k \in 0..(n[3] - 1) :
          /\ GetVectorIndexFromMatrixIndices(i, j, k, n) = k * n[1] * n[2] + j * n[1] + i
          /\ GetVectorIndexFromMatrixIndices(i, j, k, n) \in 0..(NumberOfCells(n) - 1)
          /\ GetMatrixIndicesFromVectorIndex(GetVectorIndexFromMatrixIndices(i, j, k, n), n)
                = <<i, j, k>>
    /\ \A Index \in 0..(NumberOfCells(n) - 1) :
          LET m == GetMatrixIndicesFromVectorIndex(Index, n) IN
          /\ \A a \in 1..3 : m[a] \in 0..(n[a] - 1)
          /\ GetVectorIndexFromMatrixIndices(m[1], m[2], m[3], n) = Index

\* A grid with three different sizes, walked to its last cell.
C11_Witness ==
    /\ number_of_elements = <<2, 3, 1>> \/ number_of_elements = <<3, 1, 2>>
    /\ walk_pc = "next"
    /\ walk_current_id = NumberOfCells(number_of_elements)

\* The matrix index of an id along the axis of the walk.
AxisIndex(id) == IndicesOf(id)[CASE axis = "X" -> 1 [] axis = "Y" -> 2 [] axis = "Z" -> 3]

\* C12: for each axis, when the forward neighbour of an id is found, the
\* previous walk started at the returned next_id yields reverse_id = id,
\* also when the element with that id is absent from the container.
C12_ReverseWalkIsInverse ==
    (walk_pc = "advance" /\ found) => reverse_id = walk_current_id

\* The walk in Y or Z stepped from an absent element over the end of a line
\* to a found element, and the previous walk has run.
C12_Witness ==
    /\ walk_pc = "advance"
    /\ found
    /\ axis \in {"Y", "Z"}
    /\ walk_current_id \notin container_ids
    /\ AxisIndex(next_id) = 0
    /\ reverse_id = walk_current_id

\* The id at position p (from 0) of the order of a walk: X runs over the ids;
\* Y has y fastest, then x, then z; Z has z fastest, then x, then y.
WalkOrder(p) ==
    LET n == number_of_elements IN
    CASE axis = "X" -> p + 1
      [] axis = "Y" -> (p \div (n[2] * n[1])) * (n[1] * n[2]) + (p % n[2]) * n[1]
                          + ((p \div n[2]) % n[1]) + 1
      [] axis = "Z" -> (p % n[3]) * (n[1] * n[2]) + (p \div (n[3] * n[1])) * n[1]
                          + ((p \div n[3]) % n[1]) + 1

\* C13: the next_id of a forward walk is the successor of the current id in
\* the order of the axis, whatever the container stores; walked from id 1 the
\* ids of the grid are visited once each; found is false exactly if next_id
\* has no element in the container.
C13_WalkVisitsEveryIdOnce ==
    walk_pc \in {"previous", "advance"} =>
        /\ walk_current_id = WalkOrder(walk_i - 1)
        /\ next_id = WalkOrder(walk_i)
        /\ found = (next_id \in container_ids)
        /\ \A id \in 1..NumberOfCells(number_of_elements) :
              Cardinality({p \in 0..(NumberOfCells(number_of_elements) - 1) : WalkOrder(p) = id}) = 1

\* The last call of a walk in Z over a grid with a missing element: the walk
\* has reached the last id of the grid after passing the hole.
C13_Witness ==
    /\ walk_pc = "advance"
    /\ axis = "Z"
    /\ number_of_elements = <<2, 3, 2>>
    /\ container_ids # 1..NumberOfCells(number_of_elements)
    /\ walk_i = NumberOfCells(number_of_elements) - 1
    /\ next_id = NumberOfCells(number_of_elements)
    /\ found

\* The element with this id is the last one along the axis in its grid line.
LastInLine(id) ==
    CASE axis = "X" -> id % number_of_elements[1] = 0
      [] axis = "Y" -> IndicesOf(id)[2] = number_of_elements[2] - 1
      [] axis = "Z" -> IndicesOf(id)[3] = number_of_elements[3] - 1

\* C14: after a forward walk along an axis, local_end is true if and only if
\* the next element was not found or the element reached is the last one
\* along the axis in its grid line.
C14_LocalEndIffNotFoundOrLast ==
    walk_pc \in {"previous", "advance"} => (local_end <=> (~found \/ LastInLine(next_id)))

\* A found neighbour that is last in its line with local_end true, after a
\* found neighbour inside a line and a hole have been passed.
C14_Witness ==
    /\ walk_pc = "advance"
    /\ found
    /\ local_end
    /\ LastInLine(next_id)
    /\ \E h \in 1..NumberOfCells(number_of_elements) :
          /\ h \notin container_ids
          /\ ~LastInLine(h)
          /\ \E p \in 0..(walk_i - 1) : WalkOrder(p) = h
    /\ number_of_elements[1] > 1 /\ number_of_elements[2] > 1 /\ number_of_elements[3] > 1

(***************************************************************************)
(* Properties of the driver without embedding.                             *)
(***************************************************************************)
\* C15: with embedding_flag false no classification exists (the classifier
\* is not called) and every cell is processed as Inside: after Compute the
\* container holds exactly one element per grid cell, with the ids
\* 1..global_number_of_elements, none of them trimmed.
C15_NoEmbeddingAllInside ==
    ~embedding_flag =>
        /\ p_classifications = <<>>
        /\ \A e \in ContainerElements : ~e.is_trimmed /\ ~e.has_domain
        /\ phase = "done" =>
              /\ Len(mpElementContainer) = NumCells
              /\ {e.id : e \in ContainerElements} = 1..NumCells

\* Compute has ended without embedding, the cells published out of index order.
C15_Witness ==
    /\ phase = "done"
    /\ ~embedding_flag
    /\ Len(mpElementContainer) = NumCells
    /\ mpElementContainer[1].id # 1

(***************************************************************************)
(* Properties of the loop over the target triangles.                       *)
(***************************************************************************)
\* The test has returned at line 29-31: all triangles were aimed at.
AllTested == ray_pc = "returned" /\ try_next_triangle /\ num_triangles > 0

\* The cast at triangle id is degenerate: the ray is parallel to the triangle
\* (or has no direction), or a hit of the cast lies on a triangle boundary.
DegenerateTarget(id) ==
    LET ray == RayTo(mClippedMesh, first_triangle, id, rPoint) IN
    \/ ray.direction = Vec(0, 0, 0)
    \/ RayIsParallel(ray, TriangleAt(mClippedMesh, first_triangle, id))
    \/ \E r \in Query(mClippedMesh, first_triangle, ray) :
          LET hit == RayIntersect(ray, TriangleAt(mClippedMesh, first_triangle, r))
          IN hit.intersect /\ (hit.u = 0 \/ hit.v = 0 \/ hit.u + hit.v = hit.den)

\* C16: the triangle aimed at is current_id, which counts the rays cast so
\* far, never exceeds num_triangles and is below it during a cast: at most
\* num_triangles rays are cast, one per triangle in the order of the ids, a
\* new one only after the casts before it were degenerate.  When all
\* triangles were aimed at and no cast was valid, false is returned.
C16_AtMostOneCastPerTriangle ==
    ray_pc # "off" =>
        /\ current_id <= num_triangles
        /\ ray_pc = "for" => current_id < num_triangles
        /\ ray_pc \in {"while", "for"} =>
              \A id \in 0..(current_id - 1) : try_next_triangle => DegenerateTarget(id)
        /\ AllTested => (/\ ~result
                         /\ current_id = num_triangles
                         /\ \A id \in 0..(num_triangles - 1) : DegenerateTarget(id))

\* All triangles were aimed at, rays were cast and discarded, false is returned.
C16_Witness ==
    /\ AllTested
    /\ current_id = num_triangles
    /\ ~result
    /\ \E id \in 0..(num_triangles - 1) :
          ~RayIsParallel(RayTo(mClippedMesh, first_triangle, id, rPoint),
                         TriangleAt(mClippedMesh, first_triangle, id))

(***************************************************************************)
(* Properties of a single cast.                                            *)
(***************************************************************************)
\* The hits of the cast at triangle id: the intersections of its ray with
\* the candidates of the tree.
HitsOfCast(id) ==
    LET ray == RayTo(mClippedMesh, first_triangle, id, rPoint) IN
    {hit \in {RayIntersect(ray, TriangleAt(mClippedMesh, first_triangle, r)) :
                 r \in Query(mClippedMesh, first_triangle, ray)} : hit.intersect}

\* A hit of the cast at triangle id lies on a triangle boundary.
BoundaryHit(id) == \E hit \in HitsOfCast(id) : hit.u = 0 \/ hit.v = 0 \/ hit.u + hit.v = hit.den

\* The ray of the cast at triangle id is parallel to one of its candidates.
ParallelCandidate(id) ==
    LET ray == RayTo(mClippedMesh, first_triangle, id, rPoint) IN
    \E r \in Query(mClippedMesh, first_triangle, ray) :
        RayIsParallel(ray, TriangleAt(mClippedMesh, first_triangle, r))

\* The test has returned from a cast, which is the cast at DecidingCast: from
\* inside the for loop (candidates are left) or after the loop.
Decided == ray_pc = "returned" /\ ~try_next_triangle /\ num_triangles > 0
DecidingCast == IF potential_intersections = {} THEN current_id - 1 ELSE current_id

\* C17 as stated: a cast with a hit on a triangle boundary, or whose ray is
\* parallel to a candidate triangle, never determines the result.
C17_DegenerateCastNeverDecides ==
    Decided => ~(BoundaryHit(DecidingCast) \/ ParallelCandidate(DecidingCast))

\* C17 amended: true is returned only by a cast that ran to its end without
\* a hit on a triangle boundary; a cast that ran to its end and decides has
\* no boundary hit and a target that is not parallel to the ray (the point
\* not being the centre of the target); a cast that decides before its end
\* returns false for a hit at the origin.  Candidates that are parallel to
\* the ray do not discard the cast.
C17_BoundaryHitNeverDecidesTrue ==
    Decided =>
        /\ result => (potential_intersections = {} /\ ~BoundaryHit(DecidingCast))
        /\ (potential_intersections = {}
              /\ RayTo(mClippedMesh, first_triangle, DecidingCast, rPoint).direction # Vec(0, 0, 0))
           => /\ ~BoundaryHit(DecidingCast)
              /\ ~RayIsParallel(RayTo(mClippedMesh, first_triangle, DecidingCast, rPoint),
                                TriangleAt(mClippedMesh, first_triangle, DecidingCast))
        /\ potential_intersections # {} =>
              /\ ~result
              /\ \E hit \in HitsOfCast(DecidingCast) : hit.t = 0

\* A cast with a candidate parallel to its ray has run to its end and has
\* decided for a point that is not on the surface.
C17_Witness ==
    /\ Decided
    /\ result
    /\ potential_intersections = {}
    /\ ParallelCandidate(DecidingCast)
    /\ ~BoundaryHit(DecidingCast)
    /\ ~OnSurface(rPoint, mClippedMesh)

\* The hits of a cast that are closest to the origin.
ClosestHits(id) ==
    {h \in HitsOfCast(id) : \A g \in HitsOfCast(id) : h.t * g.den <= g.t * h.den}

\* The test has returned is_inside after a cast that ran to its end.
Accepted ==
    /\ Decided
    /\ potential_intersections = {}
    /\ RayTo(mClippedMesh, first_triangle, DecidingCast, rPoint).direction # Vec(0, 0, 0)

\* C18: when a cast is accepted, the value returned is the back_facing flag
\* of the hit with the smallest t among the candidates the ray hits, in
\* whatever order the candidates were tested.
C18_ClosestHitDecides ==
    Accepted =>
        /\ ClosestHits(DecidingCast) # {}
        /\ \A h \in ClosestHits(DecidingCast) : result = h.back_facing

\* An accepted cast with hits on front and back faces at different distances
\* has returned true, after an earlier cast was discarded.
C18_Witness ==
    /\ Accepted
    /\ result
    /\ DecidingCast > 0
    /\ \E h, g \in HitsOfCast(DecidingCast) :
          h.back_facing /\ ~g.back_facing /\ h.t * g.den < g.t * h.den

(***************************************************************************)
(* Properties of the elimination rounds.  After a round that removed       *)
(* points and was not the first, prev_solution holds the candidates with   *)
(* the weights of the round and integration_points what the round kept.    *)
(***************************************************************************)
RoundRemoved == mf_pc = "eliminate" /\ point_removed /\ number_iterations >= 2

\* Indices of the candidates of the round with weight < EPS1 * max_value.
LightPoints ==
    {k \in 1..Len(prev_solution) : prev_solution[k].w * EPS1Inv < MaxWeightOf(prev_solution)}

\* C19: in a round after the first whose residual meets the target, every
\* candidate with weight < EPS1 * max_value is removed, as long as more than
\* 4 points remain; if there is no such candidate, exactly one point, one of
\* smallest weight, is removed.
C19_EveryLightPointRemoved ==
    RoundRemoved =>
        /\ LightPoints # {} =>
              Len(integration_points)
                 = MaxOf(Len(prev_solution) - Cardinality(LightPoints), 4)
        /\ LightPoints = {} =>
              /\ Len(integration_points) = Len(prev_solution) - 1
              /\ \E k \in 1..Len(prev_solution) :
                    /\ \A l \in 1..Len(prev_solution) : prev_solution[k].w <= prev_solution[l].w
                    /\ integration_points = RemoveAt(prev_solution, k)

\* C20: a round after the first leaves at least 4 points of a candidate set
\* that had at least 4 (and removes nothing from a smaller one), and the
\* loop ends with the first round after which at most 4 points are left and
\* none was removed: PointElimination returns.
C20_NeverBelowFourAndStops ==
    [][(mf_pc = "eliminate" /\ number_iterations > 0) =>
          /\ Len(integration_points') >= MinOf(Len(integration_points), 4)
          /\ (Len(integration_points') <= 4 /\ Len(integration_points') = Len(integration_points))
                => mf_pc' = "while"]_vars

\* Rounds have reduced seven candidates to four and the loop has ended with
\* the residual below the target.
C20_Witness ==
    /\ mf_pc = "while"
    /\ iteration = 1
    /\ number_of_functions = 7
    /\ Len(integration_points) = 4
    /\ residual < allowed_residual

(***************************************************************************)
(* Properties of the return of PointElimination.                           *)
(***************************************************************************)
\* PointElimination has returned from a call that entered its loop; its
\* locals hold the values of the return.
EliminationReturned == mf_pc = "while" /\ iteration >= 1 /\ number_iterations > 0

\* The loop ended with a residual above the target after a round that met it.
EndedAboveTargetAfterGoodRound ==
    EliminationReturned /\ global_residual > allowed_residual /\ prev_solution # <<>>

C23_RetryWithDoubledFactor ==
    /\ [](/\ iteration <= 4
          /\ mf_pc \in {"distribute", "eliminate"} =>
                (iteration < 4 /\ residual > allowed_residual))
    /\ [][/\ mf_pc = "while" =>
                IF residual > allowed_residual /\ iteration < 4
                THEN mf_pc' = "distribute" ELSE mf_pc' = "done"
          /\ iteration' # iteration =>
                /\ iteration' = iteration + 1
                /\ point_distribution_factor' = 2 * point_distribution_factor
                /\ mf_pc = "distribute" \/ mf_pc = "eliminate"
                /\ mf_pc' = "while"
          /\ iteration' = iteration =>
                point_distribution_factor' = point_distribution_factor]_vars

\* Four attempts were made, the factor was doubled from 1 to 16, and the
\* routine has returned above the target.
C23_Witness ==
    /\ mf_pc = "done"
    /\ is_trimmed
    /\ iteration = 4
    /\ point_distribution_factor = 16
    /\ residual > allowed_residual

\* C24: once point elimination has returned a residual above the hard
\* cutoff, the element has no integration point: through the next attempt,
\* if there is one, and at the return of the routine after the last attempt,
\* where the driver finds GetIntegrationPoints().size() == 0 and does not
\* publish the element.
C24_AboveCutoffNoPoints ==
    (is_trimmed /\ iteration >= 1 /\ residual > HardCutoff) =>
        /\ element_points = <<>>
        /\ mf_pc # "crashed"

\* The routine has returned after four attempts, the last of which fitted
\* weights >= EPS4 with a residual above the cutoff: the element is empty.
C24_Witness ==
    /\ mf_pc = "done"
    /\ is_trimmed
    /\ iteration = 4
    /\ residual > HardCutoff
    /\ element_points = <<>>
    /\ \E k \in 1..Len(integration_points) : ~(integration_points[k].w < EPS4)

(***************************************************************************)
(* Properties of the seeding loop.                                         *)
(***************************************************************************)
\* C25: the seeding loop ends when the seeded points reach min_num_points or
\* when the maximum depth is reached: once the octree was refined to depth
\* MaxLevel the loop does not ask for a further refinement, whatever the
\* octree yielded.
C25_SeedingEndsAtMaximumDepth ==
    (mf_pc = "distribute" /\ refinemen_level > MaxLevel) =>
        ~(Len(integration_points) < min_num_points)

(***************************************************************************)
(* The STL readers.                                                        *)
(*                                                                         *)
(* Coordinates are integers in units of SNAPTOL.  The norm of the stored   *)
(* normal of a facet is kept in hundredths.  A recomputed normal is kept   *)
(* as the cross product it is normalised from; <<0, 0, 0>> is the normal   *)
(* of a facet without area (the division by its norm gives no number).     *)
(***************************************************************************)
MaxFacets == 2
MaxStlCoord == 2
SNAPTOL == 1

\* Vertices of the files: a column of points, its neighbour column at a
\* distance of SNAPTOL in y, and a point at a distance of SNAPTOL in x.
StlPoints ==
    {Vec(x, y, z) : x \in 0..1, y \in 0..1, z \in 0..MaxStlCoord} \
        {p \in {Vec(1, y, z) : y \in 0..1, z \in 0..MaxStlCoord} : p # Vec(1, 0, 0)}
\* Norms of the stored normals: 0.0, 0.99 and 1.0.
StoredNorms == {0, 99, 100}

\* PointComparison::operator(): the ordering of the vertex map.
PointComparison(rLhs, rRhs) ==
    LET snap0 == rLhs[1] - rRhs[1] < SNAPTOL /\ rRhs[1] - rLhs[1] < SNAPTOL
        snap1 == rLhs[2] - rRhs[2] < SNAPTOL /\ rRhs[2] - rLhs[2] < SNAPTOL
    IN IF snap0 /\ snap1 THEN rLhs[3] < rRhs[3] - SNAPTOL
       ELSE IF snap0 THEN rLhs[2] < rRhs[2] - SNAPTOL
       ELSE rLhs[1] <= rRhs[1] - SNAPTOL

\* index_map.insert(std::make_pair(vertex, -1)).first->second after the
\* if/else: the indices the lookup can give.  The keys of the map are the
\* vertices of the mesh, key mVertices[k] holding index k - 1.  A vertex with
\* no equivalent key (neither less than the other) is inserted and gets the
\* next index; otherwise the lookup ends at an equivalent key, and at which
\* one depends on the shape of the tree when several keys are equivalent.
IndexMapInsert(vertex) ==
    LET equivalent == {k \in 1..Len(mVertices) :
                         /\ ~PointComparison(vertex, mVertices[k])
                         /\ ~PointComparison(mVertices[k], vertex)}
    IN IF equivalent = {} THEN {Len(mVertices)} ELSE {k - 1 : k \in equivalent}

\* The normal of a kept facet: the cross product of its two largest edges.
\* Edge lengths are compared by their squares (ZEROTOL is far below the
\* difference of two lengths with different integer squares).
NormalFromLargestEdges(v0, v1, v2) ==
    LET A == Sub(v1, v0)
        B == Sub(v2, v1)
        C == Sub(v0, v2)
    IN IF Dot(A, A) >= Dot(C, C) /\ Dot(B, B) >= Dot(C, C) THEN Cross(A, B)
       ELSE IF Dot(A, A) >= Dot(B, B) /\ Dot(C, C) >= Dot(B, B) THEN Cross(C, A)
       ELSE Cross(B, C)

\* Variant of NormIsAccepted: every stored normal is accepted.
NormIsAccepted_Always(norm) == TRUE

\* if( Math::Norm(normal) > 0.99 ).
NormIsAccepted(norm) == norm > 99

\* TriangleMesh::Check.
Check ==
    /\ Len(mTriangles) = Len(mNormals)
    /\ \A i \in 1..Len(mTriangles) : \A j \in 1..3 : mTriangles[i][j] < Len(mVertices)

\* The reader has opened the file and cleared the mesh.
InitSTL ==
    /\ ComputeOff
    /\ MFOff
    /\ RayOff
    /\ GridOff
    /\ reader \in {"Ascii", "Binary"}
    /\ num_facets \in 0..MaxFacets
    /\ stl_pc = "facet"
    /\ facets_read = 0
    /\ normal = 0
    /\ triangle = <<>>
    /\ read_vertices = {}
    /\ mVertices = <<>>
    /\ mTriangles = <<>>
    /\ mNormals = <<>>
    /\ stl_result = FALSE

\* Start of the body of the facet loop: the stored normal is read.
ReadNormal ==
    /\ stl_pc = "facet"
    /\ facets_read < num_facets
    /\ normal' \in StoredNorms
    /\ triangle' = <<>>
    /\ stl_pc' = "vertex"
    /\ UNCHANGED <<reader, num_facets, facets_read, read_vertices, mVertices, mTriangles,
                   mNormals, stl_result, varsNotSTL>>

\* One pass of the vertex loop: the vertex is read and looked up in the map;
\* a new vertex is added to the mesh.
ReadVertex ==
    /\ stl_pc = "vertex"
    /\ Len(triangle) < 3
    /\ \E vertex \in StlPoints : \E id \in IndexMapInsert(vertex) :
          /\ triangle' = Append(triangle, id)
          /\ mVertices' = IF id < Len(mVertices) THEN mVertices ELSE Append(mVertices, vertex)
          /\ read_vertices' = read_vertices \cup {<<vertex, id>>}
    /\ UNCHANGED <<reader, num_facets, stl_pc, facets_read, normal, mTriangles, mNormals,
                   stl_result, varsNotSTL>>

\* Variant of AddFacet: a skipped facet leaves a normal in the mesh.
AddFacet_NormalOfSkippedFacet ==
    /\ stl_pc = "vertex"
    /\ Len(triangle) = 3
    /\ IF NormIsAccepted(normal)
       THEN /\ mTriangles' = Append(mTriangles, triangle)
            /\ mNormals' = Append(mNormals,
                                  NormalFromLargestEdges(mVertices[triangle[1] + 1],
                                                         mVertices[triangle[2] + 1],
                                                         mVertices[triangle[3] + 1]))
       ELSE /\ mNormals' = Append(mNormals, Vec(0, 0, 0))
            /\ UNCHANGED mTriangles
    /\ facets_read' = facets_read + 1
    /\ stl_pc' = "facet"
    /\ UNCHANGED <<reader, num_facets, normal, triangle, read_vertices, mVertices, stl_result,
                   varsNotSTL>>

\* Rest of the body of the facet loop: the facet is added with the normal of
\* its vertices if the stored normal is accepted.
AddFacet ==
    /\ stl_pc = "vertex"
    /\ Len(triangle) = 3
    /\ IF NormIsAccepted(normal)
       THEN /\ mTriangles' = Append(mTriangles, triangle)
            /\ mNormals' = Append(mNormals,
                                  NormalFromLargestEdges(mVertices[triangle[1] + 1],
                                                         mVertices[triangle[2] + 1],
                                                         mVertices[triangle[3] + 1]))
       ELSE UNCHANGED <<mTriangles, mNormals>>
    /\ facets_read' = facets_read + 1
    /\ stl_pc' = "facet"
    /\ UNCHANGED <<reader, num_facets, normal, triangle, read_vertices, mVertices, stl_result,
                   varsNotSTL>>

\* End of the file (endsolid, or the last facet of the binary count):
\* return rTriangleMesh.Check().
ReturnCheck ==
    /\ stl_pc = "facet"
    /\ facets_read = num_facets
    /\ stl_result' = Check
    /\ stl_pc' = "returned"
    /\ UNCHANGED <<reader, num_facets, facets_read, normal, triangle, read_vertices, mVertices,
                   mTriangles, mNormals, varsNotSTL>>

\* The binary reader: a file.read fails before the facets of the count are
\* complete (the file is shorter than its count says): return false.
ReadFails ==
    /\ reader = "Binary"
    /\ stl_pc = "vertex" \/ (stl_pc = "facet" /\ facets_read < num_facets)
    /\ stl_result' = FALSE
    /\ stl_pc' = "returned"
    /\ UNCHANGED <<reader, num_facets, facets_read, normal, triangle, read_vertices, mVertices,
                   mTriangles, mNormals, varsNotSTL>>

NextSTL ==
    \/ ReadNormal
    \/ ReadVertex
    \/ AddFacet
    \/ ReturnCheck
    \/ ReadFails

SpecSTL == InitSTL /\ [][NextSTL]_vars

(***************************************************************************)
(* Properties of the STL readers.                                          *)
(***************************************************************************)
\* C26 as stated: every facet of the file, a facet with a stored normal of
\* zero length included, yields one triangle and one normal of the mesh.
C26_EveryFacetYieldsTriangle ==
    stl_pc \in {"facet", "returned"} =>
        /\ Len(mTriangles) = facets_read
        /\ Len(mNormals) = facets_read

\* C26 amended: in both readers a facet whose stored normal has a norm of at
\* most 0.99 (zero length included) is skipped, no triangle and no normal is
\* added for it and the vertices read for it stay in the mesh; a facet whose
\* stored normal has a norm above 0.99 yields one triangle and one normal,
\* computed from the two largest edges of its vertices.
C26_FacetKeptIffNormAccepted ==
    [][facets_read' # facets_read =>
          /\ facets_read' = facets_read + 1
          /\ mVertices' = mVertices
          /\ IF normal > 99
             THEN /\ mTriangles' = Append(mTriangles, triangle)
                  /\ mNormals' = Append(mNormals,
                                        NormalFromLargestEdges(mVertices[triangle[1] + 1],
                                                               mVertices[triangle[2] + 1],
                                                               mVertices[triangle[3] + 1]))
             ELSE /\ mTriangles' = mTriangles
                  /\ mNormals' = mNormals]_vars

\* Two facets were read: one was kept, the last one had a stored normal of
\* zero length and was skipped, its vertices are in the mesh.
C26_Witness ==
    /\ stl_pc = "facet"
    /\ facets_read = 2
    /\ normal = 0
    /\ Len(mTriangles) = 1
    /\ Len(mNormals) = 1
    /\ \E k \in 1..3 : \A t \in 1..3 : mTriangles[1][t] # triangle[k]

\* C27: when a reader reports success the mesh has as many normals as
\* triangles and every vertex index of every triangle is below the number of
\* vertices, and a mesh without that makes it report failure; every file read
\* to its end, with repeated or snapped vertices and skipped facets, gives
\* such a mesh and success.
C27_SuccessMeansConsistentMesh ==
    stl_pc = "returned" =>
        LET consistent ==
                /\ Len(mNormals) = Len(mTriangles)
                /\ \A i \in 1..Len(mTriangles) : \A j \in 1..3 :
                      mTriangles[i][j] \in 0..(Len(mVertices) - 1)
        IN /\ stl_result => consistent
           /\ ~consistent => ~stl_result
           /\ facets_read = num_facets => (consistent /\ stl_result)

\* Success after two facets, one of them skipped, the other with two
\* vertices that share an index.
C27_Witness ==
    /\ stl_pc = "returned"
    /\ stl_result
    /\ facets_read = 2
    /\ Len(mTriangles) = 1
    /\ mTriangles[1][1] = mTriangles[1][2]
    /\ Len(mVertices) > 2

\* C30: on the vertices the reader has looked up PointComparison is a strict
\* weak ordering (irreflexive, asymmetric, transitive, with a transitive
\* 'neither is less' equivalence), vertices that differ by less than SNAPTOL
\* in every coordinate have one index, and vertices farther apart than
\* SNAPTOL in a coordinate never share an index.
C30_StrictWeakOrderingOneIndexPerGroup ==
    LET points == {rv[1] : rv \in read_vertices}
        equivalent(a, b) == ~PointComparison(a, b) /\ ~PointComparison(b, a)
        distance(a, b) == MaxOf(MaxOf(MaxOf(a[1] - b[1], b[1] - a[1]),
                                      MaxOf(a[2] - b[2], b[2] - a[2])),
                                MaxOf(a[3] - b[3], b[3] - a[3]))
    IN /\ \A a \in points : ~PointComparison(a, a)
       /\ \A a, b \in points : PointComparison(a, b) => ~PointComparison(b, a)
       /\ \A a, b, c \in points :
             (PointComparison(a, b) /\ PointComparison(b, c)) => PointComparison(a, c)
       /\ \A a, b, c \in points : (equivalent(a, b) /\ equivalent(b, c)) => equivalent(a, c)
       /\ \A rv, rw \in read_vertices :
             /\ distance(rv[1], rw[1]) < SNAPTOL => rv[2] = rw[2]
             /\ distance(rv[1], rw[1]) > SNAPTOL => rv[2] # rw[2]

\* C28: for a trimmed domain whose clipped mesh has no triangle the test
\* returns true for every point, and it returns from its entry: no triangle
\* was aimed at and no candidate was fetched or tested.
C28_EmptyMeshIsInside ==
    (ray_pc = "returned" /\ num_triangles = 0) =>
        /\ result
        /\ current_id = 0
        /\ ~try_next_triangle
        /\ potential_intersections = {}
        /\ min_distance = MaxDistance

\* The test has returned for a point and a domain without triangles.
C28_Witness ==
    /\ ray_pc = "returned"
    /\ num_triangles = 0
    /\ result
    /\ rPoint # Vec(0, 0, 0)

\* C29: at every entry of the loop of PointElimination, in the first attempt
\* and in every retry and for every init_point_distribution_factor, the
\* candidate set has at least number_of_functions points, so that the
\* truncation of the first pass erases a valid range and the run goes on.
C29_AtLeastNCandidates ==
    /\ (mf_pc = "eliminate" /\ number_iterations = 0) =>
          Len(integration_points) >= number_of_functions
    /\ mf_pc # "crashed"

====
